---- MODULE Spec2Model ----
(***************************************************************************)
(* Model of the BAM analysis engine of lungseq-analyzer: the Python        *)
(* pipeline embedded in the Pyodide worker (coverage aggregation, CNV       *)
(* detection, pileup variant calling, the streaming BGZF reader) and the    *)
(* worker-pool merge written in JavaScript.                                 *)
(*                                                                         *)
(* Numbers.  The code works on Python/JavaScript floats.  The model keeps   *)
(* them exact:                                                              *)
(*   - a threshold is held in tenths (20 stands for 2.0, 13 for 1.3);      *)
(*   - a median is held doubled (np.median of integers is an integer or a   *)
(*     half-integer), in median_cov2;                                       *)
(*   - a quotient a / b is the pair <<a, b>> and comparisons are done by    *)
(*     cross-multiplication.                                                *)
(***************************************************************************)
EXTENDS Integers, Sequences, FiniteSets, TLC

(***************************************************************************)
(* Bounds of the model and the input families.                              *)
(***************************************************************************)
\* Longest coverage pattern (number of windows before repetition).
MaxPattern == 5
\* Largest manual min_windows_override that is tried.
MaxMinWindows == 3

\* Most BGZF blocks after the header block.
MaxBlocks == 3

\* Most groups of identical reads in a pileup input.
MaxGroups == 2

\* Most workers of the pool that are tried (WORKER_COUNT is at most 4).
MaxWorkers == 3

\* Most read_bytes calls made on one reader.
MaxCalls == 5

\* Most messages the worker receives.
MaxRequests == 2

\* Raw window coverages the inputs are built from.
CovValues == {0, 3, 10, 30, 90}
\* Manual (amp_threshold, del_threshold) pairs, in tenths.
ManualThresholds == {<<15, 5>>, <<10, 10>>, <<10, 5>>}

\* window_size default of analyze_bam_coverage / analyzeBamFile.
WindowSize == 10000
\* window_size of call_variants_from_pileup
PileupWindowSize == 1000000

VARIABLES
    \* ---- analyze_bam_coverage ----
    coverage_data,      \* <<[chrom, cov]>>: calculate_coverage's dict, in insertion order
    options,            \* the options analyzeBamFile was called with (0: not given)
    use_manual_thresholds,
    amp_threshold,      \* manual amplification threshold, tenths
    del_threshold,      \* manual deletion threshold, tenths
    min_windows_override,
    windows,            \* list of window records
    median_cov2,        \* 2 * median_cov
    coverage_class,     \* "low" | "medium" | "high" | "none"
    applied,            \* thresholds in force inside the detector that ran
    cnvs,               \* emitted regions
    result,             \* "pending" | "ok" | "No coverage data found"
    cnv_pc,             \* position inside analyze_bam_coverage
    \* ---- worker pool (JavaScript) ----
    merged,             \* the object mergeResults returned, or NotMerged
    \* ---- SimpleBamReader and calculate_coverage ----
    compressed_data,    \* the BGZF blocks of the file, in order
    chroms,             \* the chromosome filter; <<>> stands for None
    compressed_pos,     \* index of the next block to decode
    uncompressed_buffer,\* decoded items not yet trimmed
    buffer_offset,      \* bytes of uncompressed_buffer already consumed
    references,         \* <<[name, length]>> once the header is read
    coverage,           \* <<[chrom, cov]>>: the coverage dict
    read_count,
    outcome,            \* what analyze_bam_coverage returned, or Running
    cov_pc,             \* position inside calculate_coverage
    delivered,          \* what analyzeBamFile hands to its caller
    \* ---- call_variants_from_pileup ----
    reads,              \* the retained reads of the chromosome: [pos, seq, qual]
    chrom_len,
    min_depth,
    min_base_quality,
    min_variant_reads,
    min_allele_freq,    \* in hundredths: 5 stands for 0.05
    pileup_window,         \* the loop variable of "for window_idx in range(num_windows)"
    variants,
    var_pc,             \* position inside call_variants_from_pileup
    \* ---- call_variants_from_bam ----
    min_mapping_quality,
    target_refs,        \* <<[ref_id, name, length]>>
    chrom_reads,        \* <<[ref_id, reads]>>: the dict of collect_reads_for_all_chromosomes
    kept_count,
    chrom_idx,          \* the loop variable of phase 2
    all_variants,       \* the list "variants" of call_variants_from_bam
    bam_result,
    bam_pc,             \* position inside call_variants_from_bam
    \* ---- analyzeBamParallel (worker pool) ----
    worker_results,     \* "results": what the workers resolved with, in chunk order
    pool_merged,        \* what mergeResults returned, or NotMerged
    pool_pc,            \* position inside analyzeBamParallel
    \* ---- a caller of SimpleBamReader.read_bytes ----
    returned,           \* the byte strings the successful calls returned, concatenated
    last_read,          \* the last call: [n, ok, offset_before]
    calls,              \* number of read_bytes calls made
    \* ---- the Pyodide worker (JavaScript) ----
    isInitialized,
    initializationPromise, \* "null" | "pending" | "fulfilled" | "rejected"
    init_pc,            \* the await the initialization is suspended at
    runtime_loads,      \* calls of loadPyodide
    function_defs,      \* runs of the Python text that defines the analysis functions
    ready_posts,        \* 'ready' messages posted
    handlers,           \* the onmessage invocations, by message id
    replies,            \* the messages posted with an id, by id
    bam_data_js,        \* pyodide.globals: id of the request whose bytes it holds, 0 unset
    chromosomes_js,     \* pyodide.globals: id of the request whose list it holds, 0 unset
    bam_reader          \* Python global: id of the request whose bytes it was built on

cnvVars == <<coverage_data, use_manual_thresholds, amp_threshold, del_threshold,
             min_windows_override, windows, median_cov2, coverage_class,
             applied, cnvs, result, cnv_pc, merged, options>>

covVars == <<compressed_data, chroms, compressed_pos, uncompressed_buffer,
             buffer_offset, references, coverage, read_count, outcome, cov_pc, delivered>>

varVars == <<reads, chrom_len, min_depth, min_base_quality, min_variant_reads,
             min_allele_freq, pileup_window, variants, var_pc>>

bamVars == <<min_mapping_quality, target_refs, chrom_reads, kept_count, chrom_idx,
             all_variants, bam_result, bam_pc>>

poolVars == <<worker_results, pool_merged, pool_pc>>

rdrVars == <<returned, last_read, calls>>

wrkVars == <<isInitialized, initializationPromise, init_pc, runtime_loads, function_defs,
             ready_posts, handlers, replies, bam_data_js, chromosomes_js, bam_reader>>

vars == <<cnvVars, covVars, varVars, bamVars, poolVars, rdrVars, wrkVars>>

(***************************************************************************)
(* Generic helpers.                                                         *)
(***************************************************************************)
RECURSIVE SumSeq(_)
SumSeq(s) == IF s = <<>> THEN 0 ELSE Head(s) + SumSeq(Tail(s))

RECURSIVE SumSquares(_)
SumSquares(s) == IF s = <<>> THEN 0 ELSE Head(s) * Head(s) + SumSquares(Tail(s))

RECURSIVE FilterPositive(_)
FilterPositive(s) ==
    IF s = <<>> THEN <<>>
    ELSE IF Head(s) > 0 THEN <<Head(s)>> \o FilterPositive(Tail(s))
         ELSE FilterPositive(Tail(s))

RECURSIVE InsertSorted(_, _)
InsertSorted(s, x) ==
    IF s = <<>> THEN <<x>>
    ELSE IF x <= Head(s) THEN <<x>> \o s
         ELSE <<Head(s)>> \o InsertSorted(Tail(s), x)

RECURSIVE SortNums(_)
SortNums(s) == IF s = <<>> THEN <<>> ELSE InsertSorted(SortNums(Tail(s)), Head(s))

RECURSIVE Flatten(_)
Flatten(ss) == IF ss = <<>> THEN <<>> ELSE Head(ss) \o Flatten(Tail(ss))

\* a / b >= t / 10, for b > 0
RatioGE(q, t10) == q[1] * 10 >= t10 * q[2]
\* a / b <= t / 10, for b > 0
RatioLE(q, t10) == q[1] * 10 <= t10 * q[2]
\* equality of two quotients with positive denominators
RatioEq(p, q) == p[1] * q[2] = q[1] * p[2]

(***************************************************************************)
(* analyze_bam_coverage: windows, median, coverage class, normalisation.    *)
(***************************************************************************)
\* the windows of one chromosome: enumerate(cov_array)
ChromWindows(entry) ==
    [i \in 1..Len(entry.cov) |->
        [chromosome |-> entry.chrom,
         start      |-> (i - 1) * WindowSize,
         end        |-> i * WindowSize,
         coverage   |-> entry.cov[i],
         normalized |-> <<0, 1>>]]

\* for chrom, cov_array in coverage_data.items(): ... windows.append(...)
BuildWindows(data) == Flatten([k \in 1..Len(data) |-> ChromWindows(data[k])])

\* coverages = [w['coverage'] for w in windows if w['coverage'] > 0]
Coverages(ws) == FilterPositive([i \in 1..Len(ws) |-> ws[i].coverage])

\* 2 * np.median(coverages): the middle value, or the mean of the two middle ones
Median2(cs) ==
    LET s == SortNums(cs)
        n == Len(s)
    IN  IF n % 2 = 1 THEN 2 * s[(n + 1) \div 2]
        ELSE s[n \div 2] + s[n \div 2 + 1]

\* if median_cov < 15: low; elif median_cov < 30: medium; else: high
CoverageClass(m2) ==
    IF m2 < 2 * 15 THEN "low"
    ELSE IF m2 < 2 * 30 THEN "medium"
    ELSE "high"

\* w['normalized'] = w['coverage'] / median_cov if median_cov > 0 else 0
Normalize(ws, m2) ==
    [i \in 1..Len(ws) |->
        [ws[i] EXCEPT !.normalized =
            IF m2 > 0 THEN <<2 * ws[i].coverage, m2>> ELSE <<0, 1>>]]

(***************************************************************************)
(* The detectors.                                                           *)
(***************************************************************************)
NoCnv == [type |-> "none"]

\* a strict comparison in place of >=
MutIsAmp(norm_cov, amp) == norm_cov[1] * 10 > amp * norm_cov[2]

\* is_amp = norm_cov >= amp_threshold
IsAmp(norm_cov, amp) == RatioGE(norm_cov, amp)
\* is_del = norm_cov <= del_threshold and norm_cov > 0
IsDel(norm_cov, del) == RatioLE(norm_cov, del) /\ norm_cov[1] > 0

\* cnv_type, or "neutral" when neither test holds
Classify(norm_cov, amp, del) ==
    IF IsAmp(norm_cov, amp) THEN "amplification"
    ELSE IF IsDel(norm_cov, del) THEN "deletion"
    ELSE "neutral"

\* variance of the normalized coverage of a region < (t10 / 10)^2, i.e.
\* std_norm < t10 / 10.  covs are the raw coverages, m2 the doubled median.
StdBelow(covs, m2, t10) ==
    LET n == Len(covs)
        s == SumSeq(covs)
    IN  400 * (n * SumSquares(covs) - s * s) < t10 * t10 * n * n * m2 * m2

RegionCoverages(cnv) == [i \in 1..Len(cnv.windows) |-> cnv.windows[i].coverage]

RegionNormSum(cnv) == SumSeq([i \in 1..Len(cnv.windows) |-> cnv.windows[i].normalized[1]])

\* summarize_cnv_manual
summarize_cnv_manual(cnv, m2) ==
    LET n == Len(cnv.windows)
        covs == RegionCoverages(cnv)
    IN  [chromosome  |-> cnv.chromosome,
         start       |-> cnv.start,
         end         |-> cnv.end,
         length      |-> cnv.end - cnv.start,
         type        |-> cnv.type,
         \* 'copyNumber': avg_norm
         copyNumber  |-> <<RegionNormSum(cnv), n * m2>>,
         avgCoverage |-> <<SumSeq(covs), n>>,
         confidence  |-> IF n >= 7 /\ StdBelow(covs, m2, 3) THEN "high"
                         ELSE IF n >= 3 /\ StdBelow(covs, m2, 5) THEN "medium"
                         ELSE "low",
         num_windows |-> n,
         windows     |-> cnv.windows]

\* summarize_cnv
summarize_cnv(cnv, m2, class) ==
    LET n == Len(cnv.windows)
        covs == RegionCoverages(cnv)
    IN  [chromosome  |-> cnv.chromosome,
         start       |-> cnv.start,
         end         |-> cnv.end,
         length      |-> cnv.end - cnv.start,
         type        |-> cnv.type,
         avgCoverage |-> <<SumSeq(covs), n>>,
         \* 'copyNumber': avg_norm * 2
         copyNumber  |-> <<2 * RegionNormSum(cnv), n * m2>>,
         confidence  |->
            IF class = "low" THEN
                IF n >= 10 /\ StdBelow(covs, m2, 3) THEN "high"
                ELSE IF n >= 5 /\ StdBelow(covs, m2, 5) THEN "medium"
                ELSE "low"
            ELSE IF class = "medium" THEN
                IF n >= 7 /\ StdBelow(covs, m2, 3) THEN "high"
                ELSE IF n >= 3 /\ StdBelow(covs, m2, 5) THEN "medium"
                ELSE "low"
            ELSE
                IF n >= 5 /\ StdBelow(covs, m2, 4) THEN "high"
                ELSE IF n >= 2 /\ StdBelow(covs, m2, 6) THEN "medium"
                ELSE "low",
         num_windows |-> n,
         windows     |-> cnv.windows]

\* The summary the running detector appends.
Summarize(cnv, m2, class, manual) ==
    IF manual THEN summarize_cnv_manual(cnv, m2) ELSE summarize_cnv(cnv, m2, class)

\* current_cnv = {'chromosome': ..., 'start': ..., 'end': ..., 'type': ..., 'windows': [window]}
StartCnv(window, cnv_type) ==
    [chromosome |-> window.chromosome,
     start      |-> window.start,
     end        |-> window.end,
     type       |-> cnv_type,
     windows    |-> <<window>>]

\* The else branch of the loop body: a window that is neither amplified nor
\* deleted.  current_cnv is reset only together with the append.
CloseOnNeutral(st, minw, m2, class, manual) ==
    IF st.current_cnv # NoCnv /\ Len(st.current_cnv.windows) >= minw
    THEN [cnvs |-> Append(st.cnvs, Summarize(st.current_cnv, m2, class, manual)),
          current_cnv |-> NoCnv]
    ELSE st

\* the loop body extending the region in progress without comparing chromosomes
MutScanWindow(st, window, amp, del, minw, m2, class, manual) ==
    LET cnv_type == Classify(window.normalized, amp, del)
        cur == st.current_cnv
    IN  IF cnv_type # "neutral" THEN
            IF cur # NoCnv /\ cur.type = cnv_type
            THEN [st EXCEPT !.current_cnv =
                    [cur EXCEPT !.end = window.end,
                                !.windows = Append(cur.windows, window)]]
            ELSE [cnvs |-> IF cur # NoCnv /\ Len(cur.windows) >= minw
                           THEN Append(st.cnvs, Summarize(cur, m2, class, manual))
                           ELSE st.cnvs,
                  current_cnv |-> StartCnv(window, cnv_type)]
        ELSE CloseOnNeutral(st, minw, m2, class, manual)

\* One iteration of "for window in windows" of detect_cnvs_manual /
\* detect_cnvs_adaptive (the two loop bodies are the same text).
ScanWindow(st, window, amp, del, minw, m2, class, manual) ==
    LET cnv_type == Classify(window.normalized, amp, del)
        cur == st.current_cnv
    IN  IF cnv_type # "neutral" THEN
            IF cur # NoCnv /\ cur.type = cnv_type /\ cur.chromosome = window.chromosome
            THEN [st EXCEPT !.current_cnv =
                    [cur EXCEPT !.end = window.end,
                                !.windows = Append(cur.windows, window)]]
            ELSE [cnvs |-> IF cur # NoCnv /\ Len(cur.windows) >= minw
                           THEN Append(st.cnvs, Summarize(cur, m2, class, manual))
                           ELSE st.cnvs,
                  current_cnv |-> StartCnv(window, cnv_type)]
        ELSE CloseOnNeutral(st, minw, m2, class, manual)

RECURSIVE ScanFrom(_, _, _, _, _, _, _, _, _)
ScanFrom(st, ws, i, amp, del, minw, m2, class, manual) ==
    IF i > Len(ws) THEN st
    ELSE ScanFrom(ScanWindow(st, ws[i], amp, del, minw, m2, class, manual),
                  ws, i + 1, amp, del, minw, m2, class, manual)

\* the last region closed without the length test
MutCloseLast(st, minw, m2, class, manual) ==
    IF st.current_cnv # NoCnv
    THEN Append(st.cnvs, Summarize(st.current_cnv, m2, class, manual))
    ELSE st.cnvs

\* "Close last CNV" after the loop
CloseLast(st, minw, m2, class, manual) ==
    IF st.current_cnv # NoCnv /\ Len(st.current_cnv.windows) >= minw
    THEN Append(st.cnvs, Summarize(st.current_cnv, m2, class, manual))
    ELSE st.cnvs

\* detect_cnvs_manual(windows, amp_threshold, del_threshold, min_windows, median_cov)
detect_cnvs_manual(ws, amp, del, minw, m2) ==
    CloseLast(ScanFrom([cnvs |-> <<>>, current_cnv |-> NoCnv], ws, 1,
                       amp, del, minw, m2, "none", TRUE),
              minw, m2, "none", TRUE)

\* the medium thresholds applied to high coverage as well
MutAdaptiveThresholds(class) ==
    IF class = "low" THEN [amp |-> 20, del |-> 3, min_windows |-> 5]
    ELSE [amp |-> 15, del |-> 5, min_windows |-> 3]

\* the threshold table at the head of detect_cnvs_adaptive
AdaptiveThresholds(class) ==
    IF class = "low" THEN [amp |-> 20, del |-> 3, min_windows |-> 5]
    ELSE IF class = "medium" THEN [amp |-> 15, del |-> 5, min_windows |-> 3]
    ELSE [amp |-> 13, del |-> 7, min_windows |-> 2]

\* detect_cnvs_adaptive(windows, coverage_class, median_cov)
detect_cnvs_adaptive(ws, class, m2) ==
    LET t == AdaptiveThresholds(class)
    IN  CloseLast(ScanFrom([cnvs |-> <<>>, current_cnv |-> NoCnv], ws, 1,
                           t.amp, t.del, t.min_windows, m2, class, FALSE),
                  t.min_windows, m2, class, FALSE)

(***************************************************************************)
(* The worker pool: mergeResults and detectCNVsFromWindows (JavaScript).    *)
(***************************************************************************)
NotMerged == [error |-> "not merged"]

\* a.chromosome.localeCompare(b.chromosome) on the reference names used here
ChromRank(name) == IF name = "chr1" THEN 1 ELSE IF name = "chr2" THEN 2 ELSE 3

\* the comparator of sortedWindows: a sorts strictly before b
WindowBefore(a, b) ==
    IF a.chromosome # b.chromosome THEN ChromRank(a.chromosome) < ChromRank(b.chromosome)
    ELSE a.start < b.start

RECURSIVE InsertWindow(_, _)
InsertWindow(s, w) ==
    IF s = <<>> THEN <<w>>
    ELSE IF WindowBefore(w, Head(s)) THEN <<w>> \o s
         ELSE <<Head(s)>> \o InsertWindow(Tail(s), w)

\* windows.slice().sort(...): a stable sort
RECURSIVE SortWindows(_, _)
SortWindows(ws, n) == IF n = 0 THEN <<>> ELSE InsertWindow(SortWindows(ws, n - 1), ws[n])

\* the threshold table at the head of detectCNVsFromWindows
JsThresholds(class) ==
    IF class = "low" THEN [amp |-> 20, del |-> 3, min_windows |-> 5]
    ELSE IF class = "medium" THEN [amp |-> 15, del |-> 5, min_windows |-> 3]
    ELSE [amp |-> 13, del |-> 7, min_windows |-> 2]

\* One iteration of sortedWindows.forEach in detectCNVsFromWindows.
JsScanWindow(st, window, amp, del, minw, m2, class) ==
    LET cnv_type == Classify(window.normalized, amp, del)
        cur == st.current_cnv
    IN  IF cnv_type # "neutral" THEN
            IF cur # NoCnv /\ cur.type = cnv_type /\ cur.chromosome = window.chromosome
               /\ window.start = cur.end
            THEN [st EXCEPT !.current_cnv =
                    [cur EXCEPT !.end = window.end,
                                !.windows = Append(cur.windows, window)]]
            ELSE [cnvs |-> IF cur # NoCnv /\ Len(cur.windows) >= minw
                           THEN Append(st.cnvs, summarize_cnv(cur, m2, class))
                           ELSE st.cnvs,
                  current_cnv |-> StartCnv(window, cnv_type)]
        ELSE [cnvs |-> IF cur # NoCnv /\ Len(cur.windows) >= minw
                       THEN Append(st.cnvs, summarize_cnv(cur, m2, class))
                       ELSE st.cnvs,
              current_cnv |-> NoCnv]

RECURSIVE JsScanFrom(_, _, _, _, _, _, _, _)
JsScanFrom(st, ws, i, amp, del, minw, m2, class) ==
    IF i > Len(ws) THEN st
    ELSE JsScanFrom(JsScanWindow(st, ws[i], amp, del, minw, m2, class),
                    ws, i + 1, amp, del, minw, m2, class)

\* detectCNVsFromWindows(windows, coverageClass, median)
detectCNVsFromWindows(ws, class, m2) ==
    LET t == JsThresholds(class)
        sorted == SortWindows(ws, Len(ws))
    IN  CloseLast(JsScanFrom([cnvs |-> <<>>, current_cnv |-> NoCnv], sorted, 1,
                             t.amp, t.del, t.min_windows, m2, class),
                  t.min_windows, m2, class, FALSE)

\* windowMap keeping the coverage of the last window of a key instead of the sum
RECURSIVE MutMergeWindows(_, _)
MutMergeWindows(acc, all) ==
    IF all = <<>> THEN acc
    ELSE LET w == Head(all)
             hit == {i \in 1..Len(acc) :
                        acc[i].chromosome = w.chromosome /\ acc[i].start = w.start}
         IN  IF hit = {} THEN MutMergeWindows(Append(acc, w), Tail(all))
             ELSE LET i == CHOOSE j \in hit : TRUE
                  IN  MutMergeWindows([acc EXCEPT ![i].coverage = w.coverage], Tail(all))

\* windowMap: the first window of each chromosome:start key, with the coverage
\* of the later ones added to it
RECURSIVE MergeWindows(_, _)
MergeWindows(acc, all) ==
    IF all = <<>> THEN acc
    ELSE LET w == Head(all)
             hit == {i \in 1..Len(acc) :
                        acc[i].chromosome = w.chromosome /\ acc[i].start = w.start}
         IN  IF hit = {} THEN MergeWindows(Append(acc, w), Tail(all))
             ELSE LET i == CHOOSE j \in hit : TRUE
                  IN  MergeWindows([acc EXCEPT ![i].coverage = @ + w.coverage], Tail(all))

\* sorted[Math.floor(sorted.length / 2)], doubled
JsMedian2(cs) == LET s == SortNums(cs) IN 2 * s[Len(s) \div 2 + 1]

\* mergeResults(results, options): results are the workers' result objects
mergeResults(results) ==
    LET good == [k \in 1..Len(results) |->
                    IF results[k].error THEN <<>> ELSE results[k].coverageData]
        \* totalReads += result.total_reads || 0
        totalReads == SumSeq([k \in 1..Len(results) |->
                        IF results[k].error THEN 0 ELSE results[k].total_reads])
        mergedWindows == MergeWindows(<<>>, Flatten(good))
        coverages == Coverages(mergedWindows)
    IN  IF coverages = <<>> THEN [error |-> "No coverage data after merging"]
        ELSE LET m2 == JsMedian2(coverages)
                 class == CoverageClass(m2)
                 norm == Normalize(mergedWindows, m2)
             IN  [error |-> "",
                  total_reads |-> totalReads,
                  coverageData |-> norm,
                  median2 |-> m2,
                  class |-> class,
                  applied |-> JsThresholds(class),
                  cnvs |-> detectCNVsFromWindows(norm, class, m2)]

(***************************************************************************)
(* SimpleBamReader.  A block of compressed_data is a record                 *)
(*   [kind |-> "ok" | "truncated" | "corrupt", items |-> <<item, ...>>]     *)
(* whose items are what the block decompresses to: the BAM header or whole  *)
(* alignment records, each with its size in bytes.  Blocks end on item      *)
(* boundaries, and compressed_pos counts blocks instead of bytes.  An item  *)
(* whose first bytes were trimmed from the buffer keeps what is left: size  *)
(* is the number of bytes left, skip the number of bytes cut away.          *)
(***************************************************************************)
None == [kind |-> "None"]

RECURSIVE BytesOf(_)
BytesOf(items) == IF items = <<>> THEN 0 ELSE Head(items).size + BytesOf(Tail(items))

\* the item that starts at byte off of the buffer
RECURSIVE ItemAt(_, _)
ItemAt(items, off) ==
    IF off < Head(items).size THEN Head(items) ELSE ItemAt(Tail(items), off - Head(items).size)

\* uncompressed_buffer[off:]: the items left once the first off bytes are cut
\* away; of an item that is consumed in part the rest is kept
RECURSIVE DropConsumed(_, _)
DropConsumed(items, off) ==
    IF items = <<>> \/ off = 0 THEN items
    ELSE IF off < Head(items).size
         THEN <<[Head(items) EXCEPT !.size = @ - off, !.skip = @ + off]>> \o Tail(items)
         ELSE DropConsumed(Tail(items), off - Head(items).size)

\* uncompressed_buffer[off:off+n]: the bytes as pieces [of, lo, hi], bytes
\* lo..hi-1 of the item "of"
RECURSIVE Slice(_, _, _)
Slice(items, off, n) ==
    IF n <= 0 \/ items = <<>> THEN <<>>
    ELSE LET h == Head(items)
         IN  IF off >= h.size THEN Slice(Tail(items), off - h.size, n)
             ELSE LET take == IF n < h.size - off THEN n ELSE h.size - off
                  IN  <<[of |-> [h EXCEPT !.size = @ + h.skip, !.skip = 0],
                         lo |-> h.skip + off,
                         hi |-> h.skip + off + take]>>
                      \o Slice(Tail(items), 0, n - take)

\* len(self.uncompressed_buffer) - self.buffer_offset
Buffered(rd) == BytesOf(rd.uncompressed_buffer) - rd.buffer_offset

\* read_bgzf_block: the decoded block and the reader after it; none stands
\* for the return of None (the data is exhausted, the block is cut short or
\* gzip.decompress raises)
read_bgzf_block(rd, data) ==
    IF rd.compressed_pos > Len(data) THEN [none |-> TRUE, block |-> <<>>, rd |-> rd]
    ELSE IF data[rd.compressed_pos].kind # "ok" THEN [none |-> TRUE, block |-> <<>>, rd |-> rd]
    ELSE [none |-> FALSE,
          block |-> data[rd.compressed_pos].items,
          rd |-> [rd EXCEPT !.compressed_pos = @ + 1]]

\* fill_buffer(min_bytes)
RECURSIVE fill_buffer(_, _, _)
fill_buffer(rd, data, min_bytes) ==
    IF Buffered(rd) >= min_bytes THEN rd
    ELSE LET b == read_bgzf_block(rd, data)
         IN  IF b.none THEN rd
             ELSE fill_buffer([b.rd EXCEPT !.uncompressed_buffer = @ \o b.block],
                              data, min_bytes)

\* the while loop of read_bytes: blocks are appended until n bytes are
\* buffered; ok is FALSE when a block cannot be read first
RECURSIVE FillFor(_, _, _)
FillFor(rd, data, n) ==
    IF Buffered(rd) >= n THEN [ok |-> TRUE, rd |-> rd]
    ELSE LET b == read_bgzf_block(rd, data)
         IN  IF b.none THEN [ok |-> FALSE, rd |-> rd]
             ELSE FillFor([b.rd EXCEPT !.uncompressed_buffer = @ \o b.block], data, n)

\* the trim leaving buffer_offset where it was
MutReadBytes(rd, data, n) ==
    LET f == FillFor(rd, data, n)
    IN  IF ~f.ok THEN [ok |-> FALSE, data |-> <<>>, rd |-> f.rd]
        ELSE LET off == f.rd.buffer_offset + n
                 bytes == Slice(f.rd.uncompressed_buffer, f.rd.buffer_offset, n)
             IN  IF off > 1048576
                 THEN [ok |-> TRUE, data |-> bytes,
                       rd |-> [f.rd EXCEPT
                                 !.uncompressed_buffer = DropConsumed(@, off),
                                 !.buffer_offset = off]]
                 ELSE [ok |-> TRUE, data |-> bytes,
                       rd |-> [f.rd EXCEPT !.buffer_offset = off]]

\* read_bytes(n): [ok, data, rd]; ok is FALSE when None is returned
read_bytes(rd, data, n) ==
    LET f == FillFor(rd, data, n)
    IN  IF ~f.ok THEN [ok |-> FALSE, data |-> <<>>, rd |-> f.rd]
        ELSE LET off == f.rd.buffer_offset + n
                 bytes == Slice(f.rd.uncompressed_buffer, f.rd.buffer_offset, n)
             IN  IF off > 1048576
                 THEN [ok |-> TRUE, data |-> bytes,
                       rd |-> [f.rd EXCEPT
                                 !.uncompressed_buffer = DropConsumed(@, off),
                                 !.buffer_offset = 0]]
                 ELSE [ok |-> TRUE, data |-> bytes,
                       rd |-> [f.rd EXCEPT !.buffer_offset = off]]

\* the item whose first n bytes were just read
ItemJustStarted(rd, n) == ItemAt(rd.uncompressed_buffer, rd.buffer_offset - n)

\* the magic signature left unchecked
MutReadHeader(rd0, data) ==
    LET rd == fill_buffer(rd0, data, 65536)
        magic == read_bytes(rd, data, 4)
    IN  IF ~magic.ok THEN [error |-> "Not a valid BAM file", references |-> <<>>, rd |-> magic.rd]
        ELSE LET item == ItemJustStarted(magic.rd, 4)
             IN  IF item.kind # "header"
                 THEN [error |-> "Not a valid BAM file", references |-> <<>>, rd |-> magic.rd]
                 ELSE [error |-> "",
                       references |-> item.refs,
                       rd |-> read_bytes(magic.rd, data, item.size - 4).rd]

\* read_header: [error, references, rd]
read_header(rd0, data) ==
    LET rd == fill_buffer(rd0, data, 65536)
        magic == read_bytes(rd, data, 4)
    IN  IF ~magic.ok THEN [error |-> "Not a valid BAM file", references |-> <<>>, rd |-> magic.rd]
        ELSE LET item == ItemJustStarted(magic.rd, 4)
             IN  IF item.kind # "header" \/ ~item.magic_ok
                 THEN [error |-> "Not a valid BAM file", references |-> <<>>, rd |-> magic.rd]
                 ELSE [error |-> "",
                       references |-> item.refs,
                       rd |-> read_bytes(magic.rd, data, item.size - 4).rd]

\* the parsed record returned with the reader left where it was
MutReadAlignment(rd, data) ==
    LET prefix == read_bytes(rd, data, 4)
    IN  IF ~prefix.ok THEN [aln |-> None, rd |-> prefix.rd]
        ELSE LET item == ItemJustStarted(prefix.rd, 4)
             IN  [aln |-> [refID |-> item.refID,
                           pos |-> item.pos,
                           mapq |-> item.mapq,
                           flag |-> item.flag,
                           seq |-> item.seq,
                           qual |-> item.qual,
                           is_unmapped |-> (item.flag \div 4) % 2 = 1,
                           is_duplicate |-> (item.flag \div 1024) % 2 = 1,
                           is_secondary |-> (item.flag \div 256) % 2 = 1],
                  rd |-> rd]

\* read_alignment: [aln, rd]; aln is None at the end of the stream.  The four
\* bytes of block_size and the 32 bytes of the core are read first, then the
\* read name, CIGAR, sequence, qualities and tags that make up the rest.
read_alignment(rd, data) ==
    LET prefix == read_bytes(rd, data, 4)
    IN  IF ~prefix.ok THEN [aln |-> None, rd |-> prefix.rd]
        ELSE LET item == ItemJustStarted(prefix.rd, 4)
                 core == read_bytes(prefix.rd, data, 32)
             IN  IF ~core.ok THEN [aln |-> None, rd |-> core.rd]
                 ELSE LET rest == read_bytes(core.rd, data, item.size - 36)
                      IN  [aln |-> [refID |-> item.refID,
                                    pos |-> item.pos,
                                    mapq |-> item.mapq,
                                    flag |-> item.flag,
                                    seq |-> item.seq,
                                    qual |-> item.qual,
                                    is_unmapped |-> (item.flag \div 4) % 2 = 1,
                                    is_duplicate |-> (item.flag \div 1024) % 2 = 1,
                                    is_secondary |-> (item.flag \div 256) % 2 = 1],
                           rd |-> rest.rd]

(***************************************************************************)
(* SimpleBamReader.calculate_coverage                                       *)
(***************************************************************************)
InFilter(name, filter) == filter = <<>> \/ \E k \in 1..Len(filter) : filter[k] = name

\* "Initialize coverage arrays": one zero array per retained reference
RECURSIVE InitCoverage(_, _, _)
InitCoverage(refs, filter, window_size) ==
    IF refs = <<>> THEN <<>>
    ELSE IF ~InFilter(Head(refs).name, filter)
         THEN InitCoverage(Tail(refs), filter, window_size)
         ELSE <<[chrom |-> Head(refs).name,
                 cov |-> [i \in 1..((Head(refs).length \div window_size) + 1) |-> 0]]>>
              \o InitCoverage(Tail(refs), filter, window_size)

\* index of ref_name in the coverage dict, 0 when it is not a key
CoverageKey(cov, name) ==
    IF \E k \in 1..Len(cov) : cov[k].chrom = name
    THEN CHOOSE k \in 1..Len(cov) : cov[k].chrom = name
    ELSE 0

\* the window index rounded up
MutAddToCoverageCeil(cov, refs, aln, window_size) ==
    IF aln.is_unmapped \/ aln.is_duplicate \/ aln.is_secondary THEN cov
    ELSE IF aln.refID < 0 \/ aln.refID >= Len(refs) THEN cov
    ELSE LET k == CoverageKey(cov, refs[aln.refID + 1].name)
             window_idx == (aln.pos + window_size - 1) \div window_size
         IN  IF k = 0 THEN cov
             ELSE IF 0 <= window_idx /\ window_idx < Len(cov[k].cov)
                  THEN [cov EXCEPT ![k].cov[window_idx + 1] = @ + 1]
                  ELSE cov

\* duplicates counted
MutAddToCoverage(cov, refs, aln, window_size) ==
    IF aln.is_unmapped \/ aln.is_secondary THEN cov
    ELSE IF aln.refID < 0 \/ aln.refID >= Len(refs) THEN cov
    ELSE LET k == CoverageKey(cov, refs[aln.refID + 1].name)
             window_idx == aln.pos \div window_size
         IN  IF k = 0 THEN cov
             ELSE IF 0 <= window_idx /\ window_idx < Len(cov[k].cov)
                  THEN [cov EXCEPT ![k].cov[window_idx + 1] = @ + 1]
                  ELSE cov

\* the loop body of calculate_coverage after read_count += 1
AddToCoverage(cov, refs, aln, window_size) ==
    IF aln.is_unmapped \/ aln.is_duplicate \/ aln.is_secondary THEN cov
    ELSE IF aln.refID < 0 \/ aln.refID >= Len(refs) THEN cov
    ELSE LET k == CoverageKey(cov, refs[aln.refID + 1].name)
             window_idx == aln.pos \div window_size
         IN  IF k = 0 THEN cov
             ELSE IF 0 <= window_idx /\ window_idx < Len(cov[k].cov)
                  THEN [cov EXCEPT ![k].cov[window_idx + 1] = @ + 1]
                  ELSE cov

\* analyze_bam_coverage after calculate_coverage returned, adaptive mode
AnalyzeCoverage(cov, total_reads) ==
    LET ws == BuildWindows(cov)
        cs == Coverages(ws)
    IN  IF cs = <<>> THEN [error |-> "No coverage data found"]
        ELSE LET m2 == Median2(cs)
                 class == CoverageClass(m2)
                 norm == Normalize(ws, m2)
             IN  [error |-> "",
                  total_reads |-> total_reads,
                  coverageData |-> norm,
                  cnvs |-> detect_cnvs_adaptive(norm, class, m2),
                  median2 |-> m2,
                  class |-> class]

Running == [error |-> "running"]

\* analyzeBamFile has neither returned nor thrown
NotDelivered == [thrown |-> FALSE, message |-> <<>>, result |-> Running]

\* analyzeBamFile from JSON.parse(resultJson) on: a result with an error is
\* rethrown as "BAM analysis failed: " + error, any other result is returned
\* the message of the Python error lost on the way to the caller
MutAnalyzeBamFile(res) ==
    IF res.error # ""
    THEN [thrown |-> TRUE, message |-> <<"BAM analysis failed: ", "">>, result |-> Running]
    ELSE [thrown |-> FALSE, message |-> <<>>, result |-> res]

analyzeBamFile(res) ==
    IF res.error # ""
    THEN [thrown |-> TRUE, message |-> <<"BAM analysis failed: ", res.error>>, result |-> Running]
    ELSE [thrown |-> FALSE, message |-> <<>>, result |-> res]

Reader == [compressed_pos |-> compressed_pos,
           uncompressed_buffer |-> uncompressed_buffer,
           buffer_offset |-> buffer_offset]

SetReader(rd) ==
    /\ compressed_pos' = rd.compressed_pos
    /\ uncompressed_buffer' = rd.uncompressed_buffer
    /\ buffer_offset' = rd.buffer_offset

(***************************************************************************)
(* Inputs of calculate_coverage.                                            *)
(***************************************************************************)
Aln(refID, pos, flag, size) ==
    [kind |-> "aln", refID |-> refID, pos |-> pos, flag |-> flag, size |-> size,
     mapq |-> 60, seq |-> <<>>, qual |-> <<>>, skip |-> 0]

FileReferences == <<[name |-> "chr1", length |-> 25000], [name |-> "chr2", length |-> 10000]>>

HeaderItem(ok) ==
    [kind |-> "header", magic_ok |-> ok, refs |-> FileReferences, size |-> 38, skip |-> 0]

\* what a block after the header block may hold
BlockChoices ==
    {[kind |-> "truncated", items |-> <<>>],
     [kind |-> "corrupt", items |-> <<>>],
     [kind |-> "ok", items |-> <<>>],
     [kind |-> "ok", items |-> <<Aln(0, 0, 0, 40), Aln(0, 10000, 0, 40)>>],
     [kind |-> "ok", items |-> <<Aln(1, 5000, 0, 70000)>>]}
    \cup {[kind |-> "ok", items |-> <<a>>] :
            a \in {Aln(0, 9999, 0, 40), Aln(0, 10000, 0, 40), Aln(0, -1, 0, 40),
                   Aln(0, 40000, 0, 40), Aln(1, 19999, 0, 40),
                   Aln(0, 0, 4, 40), Aln(0, 0, 1024, 40), Aln(0, 0, 256, 40),
                   Aln(-1, 0, 0, 40), Aln(2, 0, 0, 40)}}

HeaderBlocks ==
    {[kind |-> "ok", items |-> <<HeaderItem(TRUE)>>],
     [kind |-> "ok", items |-> <<HeaderItem(FALSE)>>],
     [kind |-> "truncated", items |-> <<>>]}

\* A file: the header block and at most MaxBlocks blocks.  Behind a header
\* block that cannot be read, one block stands for all that may follow.
Files ==
    {<<h>> \o body : h \in {[kind |-> "ok", items |-> <<HeaderItem(TRUE)>>]},
                     body \in UNION {[1..n -> BlockChoices] : n \in 0..MaxBlocks}}
    \cup {<<h>> \o body : h \in HeaderBlocks, body \in UNION {[1..n -> BlockChoices] : n \in 0..1}}

IdleCov ==
    /\ compressed_data = <<>>
    /\ chroms = <<>>
    /\ compressed_pos = 1
    /\ uncompressed_buffer = <<>>
    /\ buffer_offset = 0
    /\ references = <<>>
    /\ coverage = <<>>
    /\ read_count = 0
    /\ outcome = Running
    /\ cov_pc = "idle"
    /\ delivered = NotDelivered

IdleCnv ==
    /\ coverage_data = <<>>
    /\ options = [useManualThresholds |-> FALSE, ampThreshold |-> 0,
                  delThreshold |-> 0, minWindows |-> 0]
    /\ use_manual_thresholds = FALSE
    /\ amp_threshold = 15
    /\ del_threshold = 5
    /\ min_windows_override = 3
    /\ windows = <<>>
    /\ median_cov2 = 0
    /\ coverage_class = "none"
    /\ applied = [amp |-> 0, del |-> 0, min_windows |-> 0]
    /\ cnvs = <<>>
    /\ result = "pending"
    /\ cnv_pc = "idle"
    /\ merged = [error |-> "not merged"]

NoResult == [error |-> "running"]

IdlePool ==
    /\ worker_results = <<>>
    /\ pool_merged = NotMerged
    /\ pool_pc = "idle"

\* read_bytes has no caller of its own
IdleRdr ==
    /\ returned = <<>>
    /\ last_read = [n |-> 0, ok |-> TRUE, offset_before |-> 0]
    /\ calls = 0

\* the worker script has been evaluated and no message has arrived
IdleWrk ==
    /\ isInitialized = FALSE
    /\ initializationPromise = "null"
    /\ init_pc = "idle"
    /\ runtime_loads = 0
    /\ function_defs = 0
    /\ ready_posts = 0
    /\ handlers = <<>>
    /\ replies = <<>>
    /\ bam_data_js = 0
    /\ chromosomes_js = 0
    /\ bam_reader = 0

IdleBam ==
    /\ min_mapping_quality = 20
    /\ target_refs = <<>>
    /\ chrom_reads = <<>>
    /\ kept_count = 0
    /\ chrom_idx = 0
    /\ all_variants = <<>>
    /\ bam_result = NoResult
    /\ bam_pc = "idle"

IdleVar ==
    /\ reads = <<>>
    /\ chrom_len = 0
    /\ min_depth = 10
    /\ min_base_quality = 20
    /\ min_variant_reads = 3
    /\ min_allele_freq = 5
    /\ pileup_window = 0
    /\ variants = <<>>
    /\ var_pc = "idle"

\* SimpleBamReader(bam_bytes) just constructed, calculate_coverage not yet entered
InitCov ==
    /\ compressed_data \in Files
    /\ chroms \in {<<>>, <<"chr1">>, <<"chrX">>}
    /\ compressed_pos = 1
    /\ uncompressed_buffer = <<>>
    /\ buffer_offset = 0
    /\ references = <<>>
    /\ coverage = <<>>
    /\ read_count = 0
    /\ outcome = Running
    /\ cov_pc = "header"
    /\ delivered = NotDelivered
    /\ IdleCnv
    /\ IdleVar
    /\ IdleBam
    /\ IdlePool
    /\ IdleRdr
    /\ IdleWrk

(***************************************************************************)
(* Actions of calculate_coverage.                                           *)
(***************************************************************************)
\* self.read_header() and the allocation of the coverage arrays
ReadHeader ==
    /\ cov_pc = "header"
    /\ LET h == read_header(Reader, compressed_data)
           cov == InitCoverage(h.references, chroms, WindowSize)
       IN  /\ SetReader(h.rd)
           /\ references' = h.references
           /\ IF h.error # ""
              THEN /\ outcome' = [error |-> h.error]
                   /\ coverage' = <<>>
                   /\ cov_pc' = "done"
              ELSE IF cov = <<>>
              THEN \* return {}, 0
                   /\ outcome' = AnalyzeCoverage(<<>>, 0)
                   /\ coverage' = <<>>
                   /\ cov_pc' = "done"
              ELSE /\ coverage' = cov
                   /\ cov_pc' = "stream"
                   /\ UNCHANGED outcome
    /\ UNCHANGED <<compressed_data, chroms, read_count, delivered, cnvVars, varVars, bamVars, poolVars, rdrVars, wrkVars>>

\* one iteration of "while True" that got an alignment
StreamAlignment ==
    /\ cov_pc = "stream"
    /\ LET r == read_alignment(Reader, compressed_data)
       IN  /\ r.aln # None
           /\ SetReader(r.rd)
           /\ read_count' = read_count + 1
           /\ coverage' = AddToCoverage(coverage, references, r.aln, WindowSize)
    /\ UNCHANGED <<compressed_data, chroms, references, outcome, cov_pc, delivered, cnvVars, varVars, bamVars, poolVars, rdrVars, wrkVars>>

\* read_alignment returned None: the loop ends and analyze_bam_coverage
\* builds its result from the coverage counted so far
EndOfStream ==
    /\ cov_pc = "stream"
    /\ LET r == read_alignment(Reader, compressed_data)
       IN  /\ r.aln = None
           /\ SetReader(r.rd)
    /\ outcome' = AnalyzeCoverage(coverage, read_count)
    /\ cov_pc' = "done"
    /\ UNCHANGED <<compressed_data, chroms, references, coverage, read_count, delivered, cnvVars, varVars, bamVars, poolVars, rdrVars, wrkVars>>

\* analyzeBamFile parses the JSON result and returns it or throws
DeliverResult ==
    /\ cov_pc = "done"
    /\ delivered' = analyzeBamFile(outcome)
    /\ cov_pc' = "delivered"
    /\ UNCHANGED <<compressed_data, chroms, compressed_pos, uncompressed_buffer, buffer_offset,
                   references, coverage, read_count, outcome, cnvVars, varVars, bamVars, poolVars, rdrVars, wrkVars>>

NextCov == ReadHeader \/ StreamAlignment \/ EndOfStream \/ DeliverResult

SpecCov == InitCov /\ [][NextCov]_vars

(***************************************************************************)
(* A caller of read_bytes: any sequence of calls on one reader, on streams  *)
(* long enough for the 1 MB trim.                                           *)
(***************************************************************************)
\* a block that decompresses to size bytes; blk tells the blocks apart
ByteBlock(blk, size) ==
    [kind |-> "ok", items |-> <<[kind |-> "bytes", blk |-> blk, size |-> size, skip |-> 0]>>]

\* the streams read: full BGZF blocks of 65280 bytes, a short last block, an
\* empty block (the end-of-file marker) or a block that is cut short
ByteFiles ==
    {[k \in 1..n |-> ByteBlock(k, 65280)] \o tail :
        n \in {0, 17, 33},
        tail \in {<<>>,
                  <<ByteBlock(100, 40)>>,
                  <<[kind |-> "ok", items |-> <<>>], ByteBlock(100, 40)>>,
                  <<[kind |-> "truncated", items |-> <<>>], ByteBlock(100, 40)>>}}

\* the n of the calls tried
ReadSizes == {4, 36, 65536, 600000, 1048576}

\* a returned byte string appended to what was returned before; pieces that
\* continue each other inside one item are written as one piece
RECURSIVE JoinBytes(_, _)
JoinBytes(acc, pieces) ==
    IF pieces = <<>> THEN acc
    ELSE LET p == Head(pieces)
             n == Len(acc)
         IN  IF n > 0 /\ acc[n].of = p.of /\ acc[n].hi = p.lo
             THEN JoinBytes([acc EXCEPT ![n].hi = p.hi], Tail(pieces))
             ELSE JoinBytes(Append(acc, p), Tail(pieces))

\* reader = SimpleBamReader(bam_data)
InitRdr ==
    /\ compressed_data \in ByteFiles
    /\ chroms = <<>>
    /\ compressed_pos = 1
    /\ uncompressed_buffer = <<>>
    /\ buffer_offset = 0
    /\ references = <<>>
    /\ coverage = <<>>
    /\ read_count = 0
    /\ outcome = Running
    /\ cov_pc = "idle"
    /\ delivered = NotDelivered
    /\ returned = <<>>
    /\ last_read = [n |-> 0, ok |-> TRUE, offset_before |-> 0]
    /\ calls = 0
    /\ IdleCnv
    /\ IdleVar
    /\ IdleBam
    /\ IdlePool
    /\ IdleWrk

\* data = reader.read_bytes(n)
ReadBytes ==
    /\ calls < MaxCalls
    /\ \E n \in ReadSizes :
          LET r == read_bytes(Reader, compressed_data, n)
          IN  /\ SetReader(r.rd)
              /\ returned' = IF r.ok THEN JoinBytes(returned, r.data) ELSE returned
              /\ last_read' = [n |-> n, ok |-> r.ok, offset_before |-> buffer_offset]
    /\ calls' = calls + 1
    /\ UNCHANGED <<compressed_data, chroms, references, coverage, read_count, outcome,
                   cov_pc, delivered, cnvVars, varVars, bamVars, poolVars, wrkVars>>

NextRdr == ReadBytes

SpecRdr == InitRdr /\ [][NextRdr]_vars

(***************************************************************************)
(* call_variants_from_pileup                                                *)
(***************************************************************************)
Bases == <<"A", "C", "G", "T", "N">>

\* {'A': 0, 'C': 0, 'G': 0, 'T': 0, 'N': 0}
ZeroCounts == [b \in {"A", "C", "G", "T", "N"} |-> 0]

Min(a, b) == IF a <= b THEN a ELSE b

\* pileup[pos][base_upper] += 1, creating pileup[pos] first when it is new
AddBase(pileup, pos, base) ==
    LET p1 == IF pos \in DOMAIN pileup THEN pileup ELSE pileup @@ (pos :> ZeroCounts)
    IN  IF base \in DOMAIN ZeroCounts THEN [p1 EXCEPT ![pos][base] = @ + 1] ELSE p1

\* the end of the window taken as inside it
RECURSIVE MutAddBasesFrom(_, _, _, _, _, _)
MutAddBasesFrom(pileup, read, i, window_start, window_end, mbq) ==
    IF i > Min(Len(read.seq), Len(read.qual)) THEN pileup
    ELSE LET pos == read.pos + (i - 1)
             next == IF pos < window_start \/ pos > window_end THEN pileup
                     ELSE IF read.qual[i] < mbq THEN pileup
                     ELSE AddBase(pileup, pos, read.seq[i])
         IN  MutAddBasesFrom(next, read, i + 1, window_start, window_end, mbq)

\* for i, (base, qual) in enumerate(zip(read_seq, read_qual)): ...
RECURSIVE AddBasesFrom(_, _, _, _, _, _)
AddBasesFrom(pileup, read, i, window_start, window_end, mbq) ==
    IF i > Min(Len(read.seq), Len(read.qual)) THEN pileup
    ELSE LET pos == read.pos + (i - 1)
             next == IF pos < window_start \/ pos >= window_end THEN pileup
                     ELSE IF read.qual[i] < mbq THEN pileup
                     ELSE AddBase(pileup, pos, read.seq[i])
         IN  AddBasesFrom(next, read, i + 1, window_start, window_end, mbq)

\* the body of "for read in reads"
AddRead(pileup, read, window_start, window_end, mbq) ==
    IF read.seq = <<>> THEN pileup
    ELSE LET read_end == read.pos + Len(read.seq)
         IN  IF read_end < window_start \/ read.pos > window_end THEN pileup
             ELSE AddBasesFrom(pileup, read, 1, window_start, window_end, mbq)

\* for read in reads: ... (an empty pileup is the empty dictionary <<>>)
RECURSIVE BuildPileup(_, _, _, _, _, _)
BuildPileup(pileup, rs, k, window_start, window_end, mbq) ==
    IF k > Len(rs) THEN pileup
    ELSE LET next == AddRead(pileup, rs[k], window_start, window_end, mbq)
         IN  IF DOMAIN next = {}
             THEN BuildPileup(<<>>, rs, k + 1, window_start, window_end, mbq)
             ELSE BuildPileup(next, rs, k + 1, window_start, window_end, mbq)

\* max(bases.keys(), key=lambda b: bases[b]): the first key with the largest count
RECURSIVE FirstMax(_, _, _)
FirstMax(bases, k, best) ==
    IF k > Len(Bases) THEN best
    ELSE FirstMax(bases, k + 1, IF bases[Bases[k]] > bases[best] THEN Bases[k] ELSE best)

\* the allele frequency left untested
MutPassesFilters(alt_count, total_depth, mvr, maf) == alt_count >= mvr

\* the two filters on an alternate base: alt_count >= min_variant_reads and
\* alt_count / total_depth >= min_allele_freq
PassesFilters(alt_count, total_depth, mvr, maf) ==
    /\ alt_count >= mvr
    /\ alt_count * 100 >= maf * total_depth

\* min(-10 * log10(max(0.01 ** alt_count, 1e-100)), 999)
QualityScore(alt_count) == Min(20 * alt_count, 999)

\* "for alt_base in ['A', 'C', 'G', 'T']" at one position
RECURSIVE CallAlternates(_, _, _, _, _, _, _)
CallAlternates(bases, pos, chrom, ref_base, k, mvr, maf) ==
    IF k > 4 THEN <<>>
    ELSE LET alt_base == Bases[k]
             total_depth == bases["A"] + bases["C"] + bases["G"] + bases["T"] + bases["N"]
             rest == CallAlternates(bases, pos, chrom, ref_base, k + 1, mvr, maf)
         IN  IF alt_base = ref_base \/ alt_base = "N" THEN rest
             ELSE IF ~PassesFilters(bases[alt_base], total_depth, mvr, maf) THEN rest
             ELSE <<[chrom |-> chrom,
                     pos |-> pos + 1,
                     ref |-> ref_base,
                     alt |-> alt_base,
                     qual |-> QualityScore(bases[alt_base]),
                     type |-> "SNV",
                     depth |-> total_depth,
                     ref_count |-> bases[ref_base],
                     alt_count |-> bases[alt_base],
                     allele_freq |-> <<bases[alt_base], total_depth>>]>> \o rest

\* the body of "for pos in sorted(pileup.keys())"
CallPosition(bases, pos, chrom, mind, mvr, maf) ==
    IF bases["A"] + bases["C"] + bases["G"] + bases["T"] + bases["N"] < mind THEN <<>>
    ELSE CallAlternates(bases, pos, chrom, FirstMax(bases, 2, "A"), 1, mvr, maf)

\* for pos in sorted(pileup.keys()): ...
RECURSIVE CallPositions(_, _, _, _, _, _)
CallPositions(pileup, keys, chrom, mind, mvr, maf) ==
    IF keys = {} THEN <<>>
    ELSE LET pos == CHOOSE p \in keys : \A q \in keys : p <= q
         IN  CallPosition(pileup[pos], pos, chrom, mind, mvr, maf)
             \o CallPositions(pileup, keys \ {pos}, chrom, mind, mvr, maf)

\* window_end = min(window_start + window_size, chrom_len)
WindowEnd(window_start, len) == Min(window_start + PileupWindowSize, len)

\* one iteration of "for window_idx in range(num_windows)": the variants it appends
WindowVariants(rs, idx, chrom, len, mind, mbq, mvr, maf) ==
    LET window_start == idx * PileupWindowSize
        pileup == BuildPileup(<<>>, rs, 1, window_start, WindowEnd(window_start, len), mbq)
    IN  CallPositions(pileup, DOMAIN pileup, chrom, mind, mvr, maf)

(***************************************************************************)
(* Inputs of call_variants_from_pileup.                                     *)
(***************************************************************************)
ReadTemplates ==
    {[pos |-> 0, seq |-> <<"A">>, qual |-> <<30>>],
     [pos |-> 0, seq |-> <<"G">>, qual |-> <<20>>],
     [pos |-> 0, seq |-> <<"G">>, qual |-> <<19>>],
     [pos |-> 0, seq |-> <<"C">>, qual |-> <<30>>],
     [pos |-> 0, seq |-> <<"N">>, qual |-> <<30>>],
     [pos |-> 999999, seq |-> <<"A", "G">>, qual |-> <<30, 30>>],
     [pos |-> 999999, seq |-> <<"G", "A">>, qual |-> <<30, 30>>]}

\* a group: count copies of one read
Groups ==
    {[i \in 1..n |-> t] : t \in ReadTemplates, n \in {1, 5}}
    \cup {[i \in 1..15 |-> [pos |-> 0, seq |-> <<"A">>, qual |-> <<30>>]]}

ReadLists == {Flatten(gs) : gs \in UNION {[1..n -> Groups] : n \in 0..MaxGroups}}

\* (min_depth, min_variant_reads, min_allele_freq in hundredths)
FilterSettings == {<<10, 3, 5>>, <<10, 3, 30>>, <<1, 1, 5>>, <<10, -1, -10>>}

\* call_variants_from_pileup entered with the reads of chromosome "chr1"
InitVar ==
    /\ reads \in ReadLists
    /\ chrom_len \in {1000000, 2000000}
    /\ \E f \in FilterSettings :
          /\ min_depth = f[1]
          /\ min_variant_reads = f[2]
          /\ min_allele_freq = f[3]
    /\ min_base_quality = 20
    /\ pileup_window = 0
    /\ variants = <<>>
    /\ var_pc = "windows"
    /\ IdleCnv
    /\ IdleCov
    /\ IdleBam
    /\ IdlePool
    /\ IdleRdr
    /\ IdleWrk

\* num_windows = (chrom_len // window_size) + 1
NumWindows == (chrom_len \div PileupWindowSize) + 1

\* one iteration of "for window_idx in range(num_windows)"
PileupWindow ==
    /\ var_pc = "windows"
    /\ pileup_window < NumWindows
    /\ variants' = variants \o WindowVariants(reads, pileup_window, "chr1", chrom_len,
                                             min_depth, min_base_quality,
                                             min_variant_reads, min_allele_freq)
    /\ pileup_window' = pileup_window + 1
    /\ UNCHANGED <<reads, chrom_len, min_depth, min_base_quality, min_variant_reads,
                   min_allele_freq, var_pc, cnvVars, covVars, bamVars, poolVars, rdrVars, wrkVars>>

\* the loop is over: return variants
ReturnVariants ==
    /\ var_pc = "windows"
    /\ pileup_window >= NumWindows
    /\ var_pc' = "done"
    /\ UNCHANGED <<reads, chrom_len, min_depth, min_base_quality, min_variant_reads,
                   min_allele_freq, pileup_window, variants, cnvVars, covVars, bamVars, poolVars, rdrVars, wrkVars>>

NextVar == PileupWindow \/ ReturnVariants

SpecVar == InitVar /\ [][NextVar]_vars

(***************************************************************************)
(* call_variants_from_bam and collect_reads_for_all_chromosomes             *)
(***************************************************************************)
\* "Filter references": target_refs from references and the chromosome filter
RECURSIVE TargetRefs(_, _, _)
TargetRefs(refs, i, filter) ==
    IF i > Len(refs) THEN <<>>
    ELSE IF filter # <<>> /\ ~InFilter(refs[i].name, filter)
         THEN TargetRefs(refs, i + 1, filter)
         ELSE <<[ref_id |-> i - 1, name |-> refs[i].name, length |-> refs[i].length]>>
              \o TargetRefs(refs, i + 1, filter)

\* chrom_reads = {ref_id: [] for ref_id in target_ref_ids}
EmptyBuckets(targets) == [k \in 1..Len(targets) |-> [ref_id |-> targets[k].ref_id, reads |-> <<>>]]

\* a record kept only above the minimum mapping quality
MutKeepRead(aln, targets, mmq) ==
    /\ \E k \in 1..Len(targets) : targets[k].ref_id = aln.refID
    /\ ~(aln.is_unmapped \/ aln.is_duplicate \/ aln.is_secondary)
    /\ ~(aln.mapq <= mmq)

\* the three tests of the loop of collect_reads_for_all_chromosomes: the
\* record is not skipped by any of the "continue" statements
KeepRead(aln, targets, mmq) ==
    /\ \E k \in 1..Len(targets) : targets[k].ref_id = aln.refID
    /\ ~(aln.is_unmapped \/ aln.is_duplicate \/ aln.is_secondary)
    /\ ~(aln.mapq < mmq)

\* chrom_reads[ref_id].append({...})
StoreRead(buckets, aln) ==
    [k \in 1..Len(buckets) |->
        IF buckets[k].ref_id = aln.refID
        THEN [buckets[k] EXCEPT !.reads = Append(@, [pos |-> aln.pos, seq |-> aln.seq,
                                                     qual |-> aln.qual, flag |-> aln.flag])]
        ELSE buckets[k]]

\* chrom_reads_dict.get(ref_id, [])
BucketOf(buckets, ref_id) ==
    IF \E k \in 1..Len(buckets) : buckets[k].ref_id = ref_id
    THEN buckets[CHOOSE k \in 1..Len(buckets) : buckets[k].ref_id = ref_id].reads
    ELSE <<>>

\* call_variants_from_pileup with window_size as a parameter: the windows
\* idx, idx + 1, ... of that size
RECURSIVE PileupFromWindow(_, _, _, _, _, _, _, _, _)
PileupFromWindow(rs, idx, chrom, len, mind, mbq, mvr, maf, window_size) ==
    IF idx >= (len \div window_size) + 1 THEN <<>>
    ELSE LET window_start == idx * window_size
             window_end == Min(window_start + window_size, len)
             pileup == BuildPileup(<<>>, rs, 1, window_start, window_end, mbq)
         IN  CallPositions(pileup, DOMAIN pileup, chrom, mind, mvr, maf)
             \o PileupFromWindow(rs, idx + 1, chrom, len, mind, mbq, mvr, maf, window_size)

\* call_variants_from_pileup as a whole: the variants of all its windows
call_variants_from_pileup(rs, chrom, len, mind, mbq, mvr, maf) ==
    PileupFromWindow(rs, 0, chrom, len, mind, mbq, mvr, maf, PileupWindowSize)

\* Python's order of the reference names used here (by code point: "chr10"
\* sorts before "chr2")
PyNameRank(name) == IF name = "chr10" THEN 1 ELSE IF name = "chr2" THEN 2 ELSE 3

\* the key (v['chrom'], v['pos']) of a sorts strictly before that of b
KeyBefore(a, b) ==
    IF a.chrom # b.chrom THEN PyNameRank(a.chrom) < PyNameRank(b.chrom)
    ELSE a.pos < b.pos

\* insertion behind the elements whose key is not larger (list.sort is stable)
RECURSIVE InsertVariant(_, _)
InsertVariant(s, v) ==
    IF s = <<>> THEN <<v>>
    ELSE IF KeyBefore(v, Head(s)) THEN <<v>> \o s
         ELSE <<Head(s)>> \o InsertVariant(Tail(s), v)

\* the list left as it was built
MutSortVariants(vs, n) == vs

\* variants.sort(key=lambda v: (v['chrom'], v['pos'])): the first n elements sorted
RECURSIVE SortVariants(_, _)
SortVariants(vs, n) ==
    IF n = 0 THEN <<>> ELSE InsertVariant(SortVariants(vs, n - 1), vs[n])

(***************************************************************************)
(* Inputs of call_variants_from_bam.                                        *)
(***************************************************************************)
VarReferences == <<[name |-> "chr2", length |-> 1000], [name |-> "chr10", length |-> 1000]>>

VarHeaderItem(ok) ==
    [kind |-> "header", magic_ok |-> ok, refs |-> VarReferences, size |-> 39, skip |-> 0]

\* a record with one byte of read name, no CIGAR, its sequence and qualities
VarAln(refID, pos, flag, mapq, seq) ==
    [kind |-> "aln", refID |-> refID, pos |-> pos, flag |-> flag,
     size |-> 4 + 32 + 1 + ((Len(seq) + 1) \div 2) + Len(seq),
     mapq |-> mapq, seq |-> seq, qual |-> [i \in 1..Len(seq) |-> 30], skip |-> 0]

VarBlockChoices ==
    {[kind |-> "truncated", items |-> <<>>],
     [kind |-> "ok", items |-> <<VarAln(1, 7, 0, 60, <<"A">>), VarAln(1, 7, 0, 60, <<"C">>)>>]}
    \cup {[kind |-> "ok", items |-> <<a>>] :
            a \in {VarAln(0, 5, 0, 60, <<"A">>), VarAln(0, 5, 0, 20, <<"G">>),
                   VarAln(0, 5, 0, 19, <<"G">>), VarAln(1, 6, 0, 60, <<"G", "T">>),
                   VarAln(0, 5, 1024, 60, <<"G">>), VarAln(0, 5, 4, 60, <<"G">>),
                   VarAln(1, 7, 256, 60, <<"C">>)}}

\* a header block and at most MaxBlocks blocks of records, or a file that
\* does not start with the magic
VarFiles ==
    {<<[kind |-> "ok", items |-> <<VarHeaderItem(TRUE)>>]>> \o body :
        body \in UNION {[1..n -> VarBlockChoices] : n \in 0..MaxBlocks}}
    \cup {<<[kind |-> "ok", items |-> <<VarHeaderItem(FALSE)>>]>>}

\* call_variants_from_bam entered: bam_reader = SimpleBamReader(bam_bytes)
InitBam ==
    /\ compressed_data \in VarFiles
    /\ chroms \in {<<>>, <<"chr10">>}
    /\ compressed_pos = 1
    /\ uncompressed_buffer = <<>>
    /\ buffer_offset = 0
    /\ references = <<>>
    /\ coverage = <<>>
    /\ read_count = 0
    /\ outcome = Running
    /\ cov_pc = "idle"
    /\ delivered = NotDelivered
    /\ reads = <<>>
    /\ chrom_len = 0
    /\ min_depth = 1
    /\ min_base_quality = 20
    /\ min_variant_reads = 1
    /\ min_allele_freq = 5
    /\ pileup_window = 0
    /\ variants = <<>>
    /\ var_pc = "idle"
    /\ min_mapping_quality = 20
    /\ target_refs = <<>>
    /\ chrom_reads = <<>>
    /\ kept_count = 0
    /\ chrom_idx = 0
    /\ all_variants = <<>>
    /\ bam_result = NoResult
    /\ bam_pc = "header"
    /\ IdleCnv
    /\ IdlePool
    /\ IdleRdr
    /\ IdleWrk

\* what no action of call_variants_from_bam changes
BamFrame ==
    UNCHANGED <<compressed_data, chroms, coverage, outcome, cov_pc, delivered,
                reads, chrom_len, min_depth, min_base_quality, min_variant_reads,
                min_allele_freq, pileup_window, variants, var_pc,
                min_mapping_quality, cnvVars, poolVars, rdrVars, wrkVars>>

\* bam_reader.read_header() and "Filter references"; the ValueError of a bad
\* magic is not caught
BamReadHeader ==
    /\ bam_pc = "header"
    /\ LET h == read_header(Reader, compressed_data)
       IN  /\ SetReader(h.rd)
           /\ references' = references \o h.references
           /\ IF h.error # ""
              THEN /\ bam_result' = [error |-> h.error]
                   /\ bam_pc' = "done"
                   /\ UNCHANGED target_refs
              ELSE /\ target_refs' = TargetRefs(h.references, 1, chroms)
                   /\ bam_pc' = "collect"
                   /\ UNCHANGED bam_result
    /\ UNCHANGED <<read_count, chrom_reads, kept_count, chrom_idx, all_variants>>
    /\ BamFrame

\* collect_reads_for_all_chromosomes up to its loop: the buckets, the reader
\* reset to the start, the header read again (its references are appended to
\* those already read)
StartCollect ==
    /\ bam_pc = "collect"
    /\ LET rd0 == [compressed_pos |-> 1, uncompressed_buffer |-> <<>>, buffer_offset |-> 0]
           h == read_header(rd0, compressed_data)
       IN  /\ SetReader(h.rd)
           /\ references' = references \o h.references
    /\ chrom_reads' = EmptyBuckets(target_refs)
    /\ read_count' = 0
    /\ kept_count' = 0
    /\ bam_pc' = "scan"
    /\ UNCHANGED <<target_refs, chrom_idx, all_variants, bam_result>>
    /\ BamFrame

\* one iteration of the loop that got an alignment
CollectRead ==
    /\ bam_pc = "scan"
    /\ LET r == read_alignment(Reader, compressed_data)
       IN  /\ r.aln # None
           /\ SetReader(r.rd)
           /\ read_count' = read_count + 1
           /\ IF KeepRead(r.aln, target_refs, min_mapping_quality)
              THEN /\ chrom_reads' = StoreRead(chrom_reads, r.aln)
                   /\ kept_count' = kept_count + 1
              ELSE UNCHANGED <<chrom_reads, kept_count>>
    /\ UNCHANGED <<references, target_refs, chrom_idx, all_variants, bam_result, bam_pc>>
    /\ BamFrame

\* read_alignment returned None: return chrom_reads, phase 2 begins
CollectDone ==
    /\ bam_pc = "scan"
    /\ LET r == read_alignment(Reader, compressed_data)
       IN  /\ r.aln = None
           /\ SetReader(r.rd)
    /\ chrom_idx' = 1
    /\ bam_pc' = "pileup"
    /\ UNCHANGED <<references, read_count, target_refs, chrom_reads, kept_count,
                   all_variants, bam_result>>
    /\ BamFrame

\* one iteration of the loop of phase 2: a chromosome without reads is
\* skipped, the variants of any other are appended
CallChromosome ==
    /\ bam_pc = "pileup"
    /\ chrom_idx <= Len(target_refs)
    /\ LET t == target_refs[chrom_idx]
           rs == BucketOf(chrom_reads, t.ref_id)
       IN  all_variants' =
               IF rs = <<>> THEN all_variants
               ELSE all_variants \o call_variants_from_pileup(rs, t.name, t.length, min_depth,
                                        min_base_quality, min_variant_reads, min_allele_freq)
    /\ chrom_idx' = chrom_idx + 1
    /\ UNCHANGED <<compressed_pos, uncompressed_buffer, buffer_offset, references, read_count,
                   target_refs, chrom_reads, kept_count, bam_result, bam_pc>>
    /\ BamFrame

\* variants.sort(...) and the returned dictionary
ReturnSorted ==
    /\ bam_pc = "pileup"
    /\ chrom_idx > Len(target_refs)
    /\ bam_result' = [error |-> "",
                      variants |-> SortVariants(all_variants, Len(all_variants)),
                      total_variants |-> Len(all_variants)]
    /\ bam_pc' = "done"
    /\ UNCHANGED <<compressed_pos, uncompressed_buffer, buffer_offset, references, read_count,
                   target_refs, chrom_reads, kept_count, chrom_idx, all_variants>>
    /\ BamFrame

NextBam ==
    BamReadHeader \/ StartCollect \/ CollectRead \/ CollectDone \/ CallChromosome \/ ReturnSorted

SpecBam == InitBam /\ [][NextBam]_vars

(***************************************************************************)
(* The two record-streaming loops side by side: calculate_coverage and      *)
(* collect_reads_for_all_chromosomes, each on its own reader.               *)
(***************************************************************************)
InitStream == InitCov \/ InitBam

NextStream == NextCov \/ NextBam

SpecStream == InitStream /\ [][NextStream]_vars

(***************************************************************************)
(* Inputs of the coverage / CNV analysis.                                   *)
(***************************************************************************)
Patterns(n) == UNION {[1..k -> CovValues] : k \in 1..n}

\* every value of the pattern repeated r times
Repeat(p, r) == [i \in 1..(Len(p) * r) |-> p[(i - 1) \div r + 1]]

\* The coverage arrays tried: every pattern of at most MaxPattern windows,
\* and every pattern of at most 3 windows stretched to runs of 5.
CoverageArrays ==
    Patterns(MaxPattern) \cup {Repeat(p, 5) : p \in Patterns(3)}

\* calculate_coverage's dict for one or two references: the flat array, cut
\* after its first s windows when s < Len
CoverageData(flat, s) ==
    IF s >= Len(flat) THEN <<[chrom |-> "chr1", cov |-> flat]>>
    ELSE <<[chrom |-> "chr1", cov |-> SubSeq(flat, 1, s)],
           [chrom |-> "chr2", cov |-> SubSeq(flat, s + 1, Len(flat))]>>

\* options.x || d: the default replaces a value that is not given or falsy (0)
OrDefault(v, d) == IF v = 0 THEN d ELSE v

\* manual settings outside the ranges the settings form offers (amplification
\* 1.0 to 5.0, deletion 0.1 to 0.9, windows 1 to 20)
OutOfRangeOptions == {<<0, 5, 0>>, <<5, 12, 2>>}

\* what the caller may pass: nothing (adaptive mode), or manual settings
CallerOptions ==
    {[useManualThresholds |-> FALSE, ampThreshold |-> 0, delThreshold |-> 0, minWindows |-> 0]}
    \cup {[useManualThresholds |-> TRUE, ampThreshold |-> t[1], delThreshold |-> t[2],
           minWindows |-> m] : t \in ManualThresholds, m \in 1..MaxMinWindows}
    \cup {[useManualThresholds |-> TRUE, ampThreshold |-> t[1], delThreshold |-> t[2],
           minWindows |-> t[3]] : t \in OutOfRangeOptions}

\* analyzeBamFile has read its options and analyze_bam_coverage has the
\* coverage arrays of calculate_coverage
InitCnv ==
    /\ \E flat \in CoverageArrays : \E s \in {1, Len(flat)} :
          coverage_data = CoverageData(flat, s)
    /\ options \in CallerOptions
    /\ use_manual_thresholds = options.useManualThresholds
    /\ amp_threshold = OrDefault(options.ampThreshold, 15)
    /\ del_threshold = OrDefault(options.delThreshold, 5)
    /\ min_windows_override = OrDefault(options.minWindows, 3)
    /\ windows = <<>>
    /\ median_cov2 = 0
    /\ coverage_class = "none"
    /\ applied = [amp |-> 0, del |-> 0, min_windows |-> 0]
    /\ cnvs = <<>>
    /\ result = "pending"
    /\ cnv_pc = "windows"
    /\ merged = NotMerged
    /\ IdleCov
    /\ IdleVar
    /\ IdleBam
    /\ IdlePool
    /\ IdleRdr
    /\ IdleWrk

(***************************************************************************)
(* Actions of the coverage / CNV analysis.                                  *)
(***************************************************************************)
\* analyze_bam_coverage from "Process coverage into windows" to "Normalize
\* coverage": the windows, the median, the class, the normalized values.
ClassifyCoverage ==
    /\ cnv_pc = "windows"
    /\ LET ws == BuildWindows(coverage_data)
           cs == Coverages(ws)
       IN  IF cs = <<>>
           THEN /\ result' = "No coverage data found"
                /\ cnv_pc' = "done"
                /\ windows' = ws
                /\ UNCHANGED <<median_cov2, coverage_class>>
           ELSE /\ median_cov2' = Median2(cs)
                /\ coverage_class' = CoverageClass(Median2(cs))
                /\ windows' = Normalize(ws, Median2(cs))
                /\ cnv_pc' = "detect"
                /\ UNCHANGED result
    /\ UNCHANGED <<coverage_data, options, use_manual_thresholds, amp_threshold, del_threshold,
                   min_windows_override, applied, cnvs, merged, covVars, varVars, bamVars, poolVars, rdrVars, wrkVars>>

\* if use_manual_thresholds: cnvs = detect_cnvs_manual(...)
DetectManual ==
    /\ cnv_pc = "detect"
    /\ use_manual_thresholds
    /\ cnvs' = detect_cnvs_manual(windows, amp_threshold, del_threshold,
                                  min_windows_override, median_cov2)
    /\ applied' = [amp |-> amp_threshold, del |-> del_threshold,
                   min_windows |-> min_windows_override]
    /\ result' = "ok"
    /\ cnv_pc' = "done"
    /\ UNCHANGED <<coverage_data, options, use_manual_thresholds, amp_threshold, del_threshold,
                   min_windows_override, windows, median_cov2, coverage_class, merged, covVars, varVars, bamVars, poolVars, rdrVars, wrkVars>>

\* else: cnvs = detect_cnvs_adaptive(windows, coverage_class, median_cov)
DetectAdaptive ==
    /\ cnv_pc = "detect"
    /\ ~use_manual_thresholds
    /\ cnvs' = detect_cnvs_adaptive(windows, coverage_class, median_cov2)
    /\ applied' = AdaptiveThresholds(coverage_class)
    /\ result' = "ok"
    /\ cnv_pc' = "done"
    /\ UNCHANGED <<coverage_data, options, use_manual_thresholds, amp_threshold, del_threshold,
                   min_windows_override, windows, median_cov2, coverage_class, merged, covVars, varVars, bamVars, poolVars, rdrVars, wrkVars>>

\* analyzeBamParallel with the worker's result: merged = mergeResults(results)
MergeResults ==
    /\ cnv_pc = "done"
    /\ merged = NotMerged
    /\ merged' = mergeResults(<<[error |-> result # "ok",
                                  total_reads |-> SumSeq(Coverages(windows)),
                                  coverageData |-> windows]>>)
    /\ cnv_pc' = "merged"
    /\ UNCHANGED <<coverage_data, options, use_manual_thresholds, amp_threshold, del_threshold,
                   min_windows_override, windows, median_cov2, coverage_class,
                   applied, cnvs, result, covVars, varVars, bamVars, poolVars, rdrVars, wrkVars>>

NextCnv == ClassifyCoverage \/ DetectManual \/ DetectAdaptive \/ MergeResults

SpecCnv == InitCnv /\ [][NextCnv]_vars

(***************************************************************************)
(* analyzeBamParallel: every worker analyses its chunk, Promise.all keeps   *)
(* the results in chunk order, mergeResults combines them.                  *)
(***************************************************************************)
\* window coverages of the chunks
PoolCov == {0, 5, 30}

\* per-chunk counts over the four windows of the file (chr2 has one window,
\* chr1 three), with some read in the chunk
PoolArrays ==
    ({a \in [1..4 -> PoolCov] : a[1] = a[2] /\ a[3] = a[4]} \ {<<0, 0, 0, 0>>})
    \cup {<<0, 5, 30, 30>>, <<30, 0, 5, 5>>}

\* calculate_coverage's dict for the chunk: the references in header order
ChunkCoverage(a) ==
    <<[chrom |-> "chr2", cov |-> <<a[1]>>],
      [chrom |-> "chr1", cov |-> <<a[2], a[3], a[4]>>]>>

\* the dict analyze_bam_coverage returns for a chunk with coverage; every
\* read of the chunk was counted in a window
WorkerResult(data) ==
    LET ws == BuildWindows(data)
        cs == Coverages(ws)
    IN  [error |-> FALSE,
         total_reads |-> SumSeq(cs),
         coverageData |-> Normalize(ws, Median2(cs))]

\* a processChunk promise that has not settled
Pending == [pending |-> TRUE]

PendingWorkers == {i \in 1..Len(worker_results) : worker_results[i] = Pending}

\* analyzeBamParallel has posted one chunk to each of WORKER_COUNT workers
InitPool ==
    /\ \E n \in 1..MaxWorkers : worker_results = [i \in 1..n |-> Pending]
    /\ pool_merged = NotMerged
    /\ pool_pc = "running"
    /\ IdleCnv
    /\ IdleCov
    /\ IdleVar
    /\ IdleBam
    /\ IdleRdr
    /\ IdleWrk

PoolFrame == UNCHANGED <<cnvVars, covVars, varVars, bamVars, rdrVars, wrkVars>>

\* onMessage with 'analyze-bam-response': resolve(result); Promise.all puts it
\* at the index of its chunk
WorkerResolves ==
    /\ pool_pc = "running"
    /\ \E i \in PendingWorkers : \E a \in PoolArrays :
          worker_results' = [worker_results EXCEPT ![i] = WorkerResult(ChunkCoverage(a))]
    /\ UNCHANGED <<pool_merged, pool_pc>>
    /\ PoolFrame

\* onMessage with an error: reject(new Error(error)); Promise.all rejects and
\* analyzeBamParallel throws
WorkerRejects ==
    /\ pool_pc = "running"
    /\ PendingWorkers # {}
    /\ pool_pc' = "failed"
    /\ UNCHANGED <<worker_results, pool_merged>>
    /\ PoolFrame

\* const merged = mergeResults(results, options)
MergeWorkerResults ==
    /\ pool_pc = "running"
    /\ PendingWorkers = {}
    /\ pool_merged' = mergeResults(worker_results)
    /\ pool_pc' = "merged"
    /\ UNCHANGED worker_results
    /\ PoolFrame

NextPool == WorkerResolves \/ WorkerRejects \/ MergeWorkerResults

SpecPool == InitPool /\ [][NextPool]_vars

(***************************************************************************)
(* The Pyodide worker.  JavaScript runs a handler until its next await, so  *)
(* an action is one such stretch: the arrival of a message, a step of the   *)
(* initialization, the resumption of a handler, the run of a Python text.   *)
(* A request is [type, chroms, good]: chroms tells whether                  *)
(* options.chromosomes is given, good whether the bytes are a BAM file that *)
(* the analysis accepts.  The bytes and the list of request id are written  *)
(* id: every request carries its own.                                       *)
(***************************************************************************)
Request(type, chrs, good) == [type |-> type, chroms |-> chrs, good |-> good]

\* the messages tried
RequestChoices ==
    {Request("init", FALSE, TRUE), Request("check-ready", FALSE, TRUE),
     Request("unknown", FALSE, TRUE), Request("run-python", FALSE, TRUE),
     Request("install-package", FALSE, TRUE),
     Request("analyze-bam", FALSE, TRUE), Request("analyze-bam", TRUE, TRUE),
     Request("analyze-bam", FALSE, FALSE),
     Request("call-variants", FALSE, TRUE), Request("call-variants", TRUE, TRUE)}

\* a message posted with an id: its type, the cause of an error, and for a
\* result the bytes and the chromosome list it was computed from
Reply(type, error, bytes, chrs) ==
    [type |-> type, error |-> error, bytes |-> bytes, chroms |-> chrs]

ErrorReply(cause) == Reply("error", cause, 0, 0)

\* an onmessage without its catch: the error is lost
MutCaught(cause) == <<>>

\* the catch of onmessage: what it posts for an error thrown in the try,
\* postMessage({ type: 'error', id, error: ... })
Caught(cause) == <<ErrorReply(cause)>>

\* an initializePyodide that does not look at initializationPromise
MutInitializePyodide ==
    IF isInitialized THEN "initialized" ELSE "start"

\* initializePyodide up to its return: the runtime is there, or an
\* initialization is under way (or has failed) and its promise is handed
\* out, or a new initialization starts
initializePyodide ==
    IF isInitialized THEN "initialized"
    ELSE IF initializationPromise # "null" THEN "join"
    ELSE "start"

NoPython == [raised |-> "", error |-> "", bytes |-> 0, chroms |-> 0]

Handler(req, pc) == [type |-> req.type, chroms |-> req.chroms, good |-> req.good,
                     pc |-> pc, py |-> NoPython]

UsesBam(type) == type \in {"analyze-bam", "call-variants"}

\* the worker script has been evaluated
InitWorker ==
    /\ IdleWrk
    /\ IdleCnv
    /\ IdleCov
    /\ IdleVar
    /\ IdleBam
    /\ IdlePool
    /\ IdleRdr

WorkerFrame == UNCHANGED <<cnvVars, covVars, varVars, bamVars, poolVars, rdrVars>>

\* The operation of a request from the point where isInitialized is known to
\* be true up to its first await: h is the handler after it, post what it
\* posts with the id, and bam / chr tell whether bam_data_js and
\* chromosomes_js are set.
Begin(req) ==
    IF req.type = "init"
    THEN [h |-> Handler(req, "done"), post |-> <<Reply("init-response", "", 0, 0)>>,
          bam |-> FALSE, chr |-> FALSE]
    ELSE IF UsesBam(req.type)
    THEN \* pyodide.globals.set('bam_data_js', bamBytes); ...; await runPythonAsync
         [h |-> Handler(req, "await-python"), post |-> <<>>,
          bam |-> TRUE, chr |-> req.chroms]
    ELSE IF req.type = "run-python"
    THEN [h |-> Handler(req, "await-python"), post |-> <<>>, bam |-> FALSE, chr |-> FALSE]
    ELSE \* install-package: await micropip.install(packageName)
         [h |-> Handler(req, "await-install"), post |-> <<>>, bam |-> FALSE, chr |-> FALSE]

\* the globals after Begin(req) for the request id
SetGlobals(id, b) ==
    /\ bam_data_js' = IF b.bam THEN id ELSE bam_data_js
    /\ chromosomes_js' = IF b.chr THEN id ELSE chromosomes_js

\* The initialization promise has settled and a handler that awaits it has
\* not resumed yet: the resumptions are microtasks, which all run before the
\* event loop takes its next task (a message, a timer, a fetch that ended).
MicrotasksPending ==
    /\ initializationPromise \in {"fulfilled", "rejected"}
    /\ \E id \in 1..Len(handlers) : handlers[id].pc = "await-init"

\* self.onmessage: a message arrives and its handler runs to its first await
OnMessage ==
    /\ ~MicrotasksPending
    /\ Len(handlers) < MaxRequests
    /\ \E req \in RequestChoices :
          LET id == Len(handlers) + 1
          IN  IF req.type = "check-ready"
              THEN /\ handlers' = Append(handlers, Handler(req, "done"))
                   /\ replies' = Append(replies, <<Reply("check-ready-response", "", 0, 0)>>)
                   /\ UNCHANGED <<initializationPromise, init_pc, runtime_loads,
                                  bam_data_js, chromosomes_js>>
              ELSE IF req.type = "unknown"
              THEN \* default: throw new Error(`Unknown message type: ${type}`)
                   /\ handlers' = Append(handlers, Handler(req, "done"))
                   /\ replies' = Append(replies, Caught("unknown type"))
                   /\ UNCHANGED <<initializationPromise, init_pc, runtime_loads,
                                  bam_data_js, chromosomes_js>>
              ELSE IF initializePyodide = "initialized"
              THEN \* initializePyodide returns pyodide, or is not called
                   /\ handlers' = Append(handlers, Begin(req).h)
                   /\ replies' = Append(replies, Begin(req).post)
                   /\ SetGlobals(id, Begin(req))
                   /\ UNCHANGED <<initializationPromise, init_pc, runtime_loads>>
              ELSE IF initializePyodide = "join"
              THEN \* if (initializationPromise) return initializationPromise
                   /\ handlers' = Append(handlers, Handler(req, "await-init"))
                   /\ replies' = Append(replies, <<>>)
                   /\ UNCHANGED <<initializationPromise, init_pc, runtime_loads,
                                  bam_data_js, chromosomes_js>>
              ELSE \* the initialization starts and runs to "await self.loadPyodide"
                   /\ handlers' = Append(handlers, Handler(req, "await-init"))
                   /\ replies' = Append(replies, <<>>)
                   /\ initializationPromise' = "pending"
                   /\ init_pc' = "loadPyodide"
                   /\ runtime_loads' = runtime_loads + 1
                   /\ UNCHANGED <<bam_data_js, chromosomes_js>>
    /\ UNCHANGED <<isInitialized, function_defs, ready_posts, bam_reader>>
    /\ WorkerFrame

\* the awaits of the initialization, in order
NextAwait(pc) ==
    IF pc = "loadPyodide" THEN "loadPackage"
    ELSE IF pc = "loadPackage" THEN "imports"
    ELSE IF pc = "imports" THEN "definitions"
    ELSE "done"

\* the awaited promise of the initialization fulfils: it goes on to its next
\* await, or to isInitialized = true and the 'ready' message
InitStep ==
    /\ init_pc \in {"loadPyodide", "loadPackage", "imports", "definitions"}
    /\ init_pc' = NextAwait(init_pc)
    /\ function_defs' = IF init_pc = "imports" THEN function_defs + 1 ELSE function_defs
    /\ IF init_pc = "definitions"
       THEN /\ isInitialized' = TRUE
            /\ ready_posts' = ready_posts + 1
            /\ initializationPromise' = "fulfilled"
       ELSE UNCHANGED <<isInitialized, ready_posts, initializationPromise>>
    /\ UNCHANGED <<runtime_loads, handlers, replies, bam_data_js, chromosomes_js, bam_reader>>
    /\ WorkerFrame

\* the awaited promise of the initialization rejects: the catch posts an
\* 'error' without id and rethrows
InitFails ==
    /\ init_pc \in {"loadPyodide", "loadPackage", "imports", "definitions"}
    /\ init_pc' = "failed"
    /\ initializationPromise' = "rejected"
    /\ UNCHANGED <<isInitialized, runtime_loads, function_defs, ready_posts, handlers,
                   replies, bam_data_js, chromosomes_js, bam_reader>>
    /\ WorkerFrame

\* the handler that has been suspended longest at "await initializePyodide()"
\* resumes
ResumeAfterInit ==
    /\ MicrotasksPending
    /\ \E id \in 1..Len(handlers) :
          /\ handlers[id].pc = "await-init"
          /\ \A earlier \in 1..(id - 1) : handlers[earlier].pc # "await-init"
          /\ IF initializationPromise = "rejected"
             THEN /\ handlers' = [handlers EXCEPT ![id].pc = "done"]
                  /\ replies' = [replies EXCEPT ![id] = @ \o Caught("initialization")]
                  /\ UNCHANGED <<bam_data_js, chromosomes_js>>
             ELSE LET b == Begin(handlers[id])
                  IN  /\ handlers' = [handlers EXCEPT ![id] = b.h]
                      /\ replies' = [replies EXCEPT ![id] = @ \o b.post]
                      /\ SetGlobals(id, b)
    /\ UNCHANGED <<isInitialized, initializationPromise, init_pc, runtime_loads,
                   function_defs, ready_posts, bam_reader>>
    /\ WorkerFrame

\* The Python text of analyzeBamFile / callVariants:
\*   bam_bytes = bytes(bam_data_js.to_py()); result = analyze_bam_coverage(...)
\* A name that is not set raises NameError; bytes that are no BAM file make
\* analyze_bam_coverage return an error and call_variants_from_bam raise.
PythonOf(h) ==
    IF bam_data_js = 0 \/ (h.chroms /\ chromosomes_js = 0)
    THEN [raised |-> "NameError", error |-> "", bytes |-> 0, chroms |-> 0]
    ELSE LET chrs == IF h.chroms THEN chromosomes_js ELSE 0
         IN  IF handlers[bam_data_js].good
             THEN [raised |-> "", error |-> "", bytes |-> bam_data_js, chroms |-> chrs]
             ELSE IF h.type = "analyze-bam"
             THEN [raised |-> "", error |-> "Not a valid BAM file",
                   bytes |-> bam_data_js, chroms |-> chrs]
             ELSE [raised |-> "Not a valid BAM file", error |-> "",
                   bytes |-> bam_data_js, chroms |-> chrs]

\* the Python text handed to runPythonAsync runs, from its first line to
\* its last
RunPython ==
    /\ ~MicrotasksPending
    /\ \E id \in 1..Len(handlers) :
          /\ handlers[id].pc = "await-python"
          /\ IF UsesBam(handlers[id].type)
             THEN /\ handlers' = [handlers EXCEPT ![id].pc = "python-done",
                                                  ![id].py = PythonOf(handlers[id])]
                  /\ bam_reader' = IF handlers[id].type = "analyze-bam"
                                      /\ PythonOf(handlers[id]).raised = ""
                                   THEN bam_data_js ELSE bam_reader
             ELSE \* run-python: the caller's code runs, or raises
                  /\ \E raised \in {"", "user code"} :
                        handlers' = [handlers EXCEPT ![id].pc = "python-done",
                                                     ![id].py = [NoPython EXCEPT !.raised = raised]]
                  /\ UNCHANGED bam_reader
    /\ UNCHANGED <<isInitialized, initializationPromise, init_pc, runtime_loads,
                   function_defs, ready_posts, replies, bam_data_js, chromosomes_js>>
    /\ WorkerFrame

\* analyzeBamFile / callVariants / runPythonCode resume behind
\* "await pyodide.runPythonAsync": clean up, parse, return or throw, and
\* onmessage posts the response or the error
ResumeAfterPython ==
    /\ ~MicrotasksPending
    /\ \E id \in 1..Len(handlers) :
          LET h == handlers[id]
          IN  /\ h.pc = "python-done"
              /\ handlers' = [handlers EXCEPT ![id].pc = "done"]
              /\ IF h.py.raised # ""
                 THEN /\ replies' = [replies EXCEPT ![id] = @ \o Caught(h.py.raised)]
                      /\ UNCHANGED <<bam_data_js, chromosomes_js>>
                 ELSE IF ~UsesBam(h.type)
                 THEN /\ replies' = [replies EXCEPT ![id] =
                                        Append(@, Reply("run-python-response", "", 0, 0))]
                      /\ UNCHANGED <<bam_data_js, chromosomes_js>>
                 ELSE \* pyodide.globals.delete(...) of a name that is gone may throw
                      \E throws \in BOOLEAN :
                         IF throws /\ (bam_data_js = 0 \/ (h.chroms /\ chromosomes_js = 0))
                         THEN /\ replies' = [replies EXCEPT ![id] = @ \o Caught("KeyError")]
                              /\ bam_data_js' = 0
                              /\ UNCHANGED chromosomes_js
                         ELSE /\ bam_data_js' = 0
                              /\ chromosomes_js' = IF h.chroms THEN 0 ELSE chromosomes_js
                              /\ replies' = [replies EXCEPT ![id] = @ \o
                                    (IF h.py.error # "" THEN Caught(h.py.error)
                                     ELSE <<Reply(IF h.type = "analyze-bam"
                                                  THEN "analyze-bam-response"
                                                  ELSE "call-variants-response",
                                                  "", h.py.bytes, h.py.chroms)>>)]
    /\ UNCHANGED <<isInitialized, initializationPromise, init_pc, runtime_loads,
                   function_defs, ready_posts, bam_reader>>
    /\ WorkerFrame

\* installPackage resumes behind "await micropip.install(packageName)"
InstallDone ==
    /\ ~MicrotasksPending
    /\ \E id \in 1..Len(handlers) :
          /\ handlers[id].pc = "await-install"
          /\ handlers' = [handlers EXCEPT ![id].pc = "done"]
          /\ \E ok \in BOOLEAN :
                replies' = [replies EXCEPT ![id] = @ \o
                    (IF ok THEN <<Reply("install-package-response", "", 0, 0)>>
                     ELSE Caught("install"))]
    /\ UNCHANGED <<isInitialized, initializationPromise, init_pc, runtime_loads,
                   function_defs, ready_posts, bam_data_js, chromosomes_js, bam_reader>>
    /\ WorkerFrame

NextWorker ==
    OnMessage \/ InitStep \/ InitFails \/ ResumeAfterInit \/ RunPython
    \/ ResumeAfterPython \/ InstallDone

SpecWorker == InitWorker /\ [][NextWorker]_vars

\* Every promise the worker awaits settles, and the event loop runs every
\* continuation that is ready; messages may stop arriving at any time.
SpecWorkerLive ==
    /\ SpecWorker
    /\ WF_vars(InitStep \/ InitFails)
    /\ WF_vars(ResumeAfterInit)
    /\ WF_vars(RunPython)
    /\ WF_vars(ResumeAfterPython)
    /\ WF_vars(InstallDone)

(***************************************************************************)
(* Claims about the CNV detectors (checked under SpecCnv).                  *)
(***************************************************************************)
\* analyze_bam_coverage returned a result with CNV regions
Detected == cnv_pc \in {"done", "merged"} /\ result = "ok"

\* The classification of a window, stated on the raw coverage and the median:
\* coverage / median >= amp / 10  <=>  20 * coverage >= amp * (2 * median)
ExpectAmp(w) == 20 * w.coverage >= applied.amp * median_cov2
ExpectDel(w) == w.coverage > 0 /\ 20 * w.coverage <= applied.del * median_cov2
ExpectType(w) ==
    IF ExpectAmp(w) THEN "amplification"
    ELSE IF ExpectDel(w) THEN "deletion"
    ELSE "neutral"

\* position of a window in the scanned list
WindowIndex(w) ==
    CHOOSE i \in 1..Len(windows) :
        windows[i].chromosome = w.chromosome /\ windows[i].start = w.start

Regions == {cnvs[k] : k \in 1..Len(cnvs)}

\* the windows i..j form a maximal run of same-type, same-chromosome windows
SameRun(i, j) ==
    /\ ExpectType(windows[i]) = ExpectType(windows[j])
    /\ windows[i].chromosome = windows[j].chromosome
MaximalRun(i, j) ==
    /\ i <= j
    /\ ExpectType(windows[i]) # "neutral"
    /\ \A k \in i..j : SameRun(i, k)
    /\ i > 1 => ~SameRun(i, i - 1)
    /\ j < Len(windows) => ~SameRun(j, j + 1)

\* C1: every emitted region is made of consecutive windows of the scanned
\* list (a neutral window ends the region in progress, and the windows of a
\* run that was too short are not carried into a later region).
C1_RegionsAreConsecutive ==
    Detected =>
        \A r \in Regions : \A k \in 1..(Len(r.windows) - 1) :
            WindowIndex(r.windows[k + 1]) = WindowIndex(r.windows[k]) + 1

\* C3: no emitted region has fewer windows than the minimum of its mode:
\* the caller's min_windows_override in manual mode, 5 / 3 / 2 for the low /
\* medium / high class in adaptive mode.
C3_MinWindows ==
    Detected =>
        LET minimum == IF use_manual_thresholds THEN min_windows_override
                       ELSE IF median_cov2 < 30 THEN 5
                       ELSE IF median_cov2 < 60 THEN 3
                       ELSE 2
        IN  \A r \in Regions :
                /\ Len(r.windows) >= minimum
                /\ r.num_windows = Len(r.windows)

\* C3 witness: a region with exactly the minimum number of windows that was
\* still open when the scan ended (its last window is the last window).
C3_Witness ==
    /\ Detected
    /\ \E r \in Regions :
          /\ Len(r.windows) = applied.min_windows
          /\ WindowIndex(r.windows[Len(r.windows)]) = Len(windows)

\* C4: every emitted region reports a copy number of twice the mean
\* normalized coverage of its windows, in manual and in adaptive mode.
C4_CopyNumberTwiceMean ==
    Detected =>
        \A r \in Regions :
            r.copyNumber[1] * (Len(r.windows) * median_cov2)
                = 2 * SumSeq(RegionCoverages(r)) * 2 * r.copyNumber[2]

\* C5: every maximal run of at least min_windows same-type windows on one
\* chromosome yields exactly one region, from the start of the run's first
\* window to the end of its last window.
C5_RunYieldsItsRegion ==
    Detected =>
        \A i \in 1..Len(windows) : \A j \in i..Len(windows) :
            (MaximalRun(i, j) /\ j - i + 1 >= applied.min_windows) =>
                Cardinality({k \in 1..Len(cnvs) :
                    /\ cnvs[k].chromosome = windows[i].chromosome
                    /\ cnvs[k].type = ExpectType(windows[i])
                    /\ cnvs[k].start = windows[i].start
                    /\ cnvs[k].end = windows[j].end}) = 1

\* C6: low iff median < 15, medium iff 15 <= median <= 30, high iff median > 30.
C6_ClassBands ==
    coverage_class # "none" =>
        /\ coverage_class = "low" <=> median_cov2 < 2 * 15
        /\ coverage_class = "medium" <=> (2 * 15 <= median_cov2 /\ median_cov2 <= 2 * 30)
        /\ coverage_class = "high" <=> median_cov2 > 2 * 30

\* C7: the adaptive thresholds applied are (2.0, 0.3, 5), (1.5, 0.5, 3) and
\* (1.3, 0.7, 2) for the low, medium and high class, in the Python detector
\* and in the worker pool's detector.
ThresholdTable(class, t) ==
    /\ class = "low" => t = [amp |-> 20, del |-> 3, min_windows |-> 5]
    /\ class = "medium" => t = [amp |-> 15, del |-> 5, min_windows |-> 3]
    /\ class = "high" => t = [amp |-> 13, del |-> 7, min_windows |-> 2]
C7_AdaptiveThresholds ==
    /\ (Detected /\ ~use_manual_thresholds) =>
          /\ coverage_class \in {"low", "medium", "high"}
          /\ ThresholdTable(coverage_class, applied)
    /\ (cnv_pc = "merged" /\ merged.error = "") =>
          /\ merged.class \in {"low", "medium", "high"}
          /\ ThresholdTable(merged.class, merged.applied)

\* C7 witness: both detectors ran on a low-class sample and emitted a region.
C7_Witness ==
    /\ cnv_pc = "merged"
    /\ ~use_manual_thresholds
    /\ coverage_class = "low"
    /\ cnvs # <<>>
    /\ merged.error = ""
    /\ merged.class = "low"
    /\ merged.cnvs # <<>>

RECURSIVE Readable(_)
Readable(data) ==
    IF data = <<>> \/ Head(data).kind # "ok" THEN <<>>
    ELSE Head(data).items \o Readable(Tail(data))

RECURSIVE AlignmentsOnly(_)
AlignmentsOnly(items) ==
    IF items = <<>> THEN <<>>
    ELSE IF Head(items).kind = "aln" THEN <<Head(items)>> \o AlignmentsOnly(Tail(items))
         ELSE AlignmentsOnly(Tail(items))

\* the alignment records read_alignment has returned so far
Consumed == SubSeq(AlignmentsOnly(Readable(compressed_data)), 1, read_count)

\* neither unmapped (0x4) nor duplicate (0x400) nor secondary (0x100)
NotSkipped(a) == a.flag \notin {4, 1024, 256}

MapsTo(a, chrom) ==
    /\ 0 <= a.refID
    /\ a.refID < Len(references)
    /\ references[a.refID + 1].name = chrom

CoverageDone == cov_pc = "done" /\ coverage # <<>>

C10_DamagedBlockFails ==
    (cov_pc = "done" /\ \E k \in 1..Len(compressed_data) : compressed_data[k].kind # "ok")
        => outcome.error # ""

(***************************************************************************)
(* Properties of the variant caller.                                        *)
(***************************************************************************)
\* the number of bases b the reads place on 0-based position p with a
\* quality of at least min_base_quality
Depth(p, b) ==
    Cardinality({ki \in (1..Len(reads)) \X (1..2) :
                    /\ ki[2] <= Len(reads[ki[1]].seq)
                    /\ ki[2] <= Len(reads[ki[1]].qual)
                    /\ reads[ki[1]].pos + ki[2] - 1 = p
                    /\ reads[ki[1]].seq[ki[2]] = b
                    /\ reads[ki[1]].qual[ki[2]] >= min_base_quality})

TotalDepth(p) == Depth(p, "A") + Depth(p, "C") + Depth(p, "G") + Depth(p, "T") + Depth(p, "N")

IsMajority(p, b) == \A c \in {"A", "C", "G", "T", "N"} : Depth(p, b) >= Depth(p, c)

Qualifies(p, b) ==
    /\ TotalDepth(p) >= min_depth
    /\ Depth(p, b) >= min_variant_reads
    /\ Depth(p, b) * 100 >= min_allele_freq * TotalDepth(p)

\* the positions of the chromosome the reads touch
TouchedPositions ==
    {p \in {reads[k].pos + i - 1 : k \in 1..Len(reads), i \in 1..2} : 0 <= p /\ p < chrom_len}

\* C9: when the caller returns, a Variant is reported exactly for the positions
\* of the chromosome with depth >= minDepth and the non-reference bases there
\* seen in at least minVariantReads reads and at an allele frequency of at
\* least minAlleleFreq; its reference is a majority base of the position, its
\* position is the 0-based position plus one, and no (position, base) pair is
\* reported twice.
C9_VariantCallingRule ==
    var_pc = "done" =>
        /\ \A i \in 1..Len(variants) :
              LET v == variants[i]
                  p == v.pos - 1
              IN  /\ p \in TouchedPositions
                  /\ v.alt \in {"A", "C", "G", "T"}
                  /\ v.alt # v.ref
                  /\ IsMajority(p, v.ref)
                  /\ Qualifies(p, v.alt)
                  /\ v.alt_count = Depth(p, v.alt)
                  /\ v.depth = TotalDepth(p)
                  /\ v.allele_freq = <<Depth(p, v.alt), TotalDepth(p)>>
                  /\ \A j \in 1..Len(variants) :
                        (variants[j].pos = v.pos /\ variants[j].alt = v.alt) => j = i
        /\ \A p \in TouchedPositions : \A b \in {"A", "C", "G", "T"} :
              Qualifies(p, b) =>
                  \/ \E i \in 1..Len(variants) : variants[i].pos = p + 1 /\ variants[i].alt = b
                  \/ /\ IsMajority(p, b)
                     /\ \A i \in 1..Len(variants) : variants[i].pos = p + 1 => variants[i].ref = b

\* 15 reads with A and 5 with G on one position, the default filters: exactly
\* one Variant, A>G at allele frequency 5/20
C9_Witness ==
    /\ var_pc = "done"
    /\ min_depth = 10 /\ min_variant_reads = 3 /\ min_allele_freq = 5
    /\ Depth(0, "A") = 15
    /\ Depth(0, "G") = 5
    /\ Len(variants) = 1
    /\ variants[1].pos = 1
    /\ variants[1].ref = "A"
    /\ variants[1].alt = "G"
    /\ variants[1].allele_freq = <<5, 20>>

(***************************************************************************)
(* Properties of the coverage analysis: errors, window allocation.          *)
(***************************************************************************)
\* the first block lacks the gzip signature or cannot be decoded, or the
\* stream it starts does not begin with the BAM magic
BadSignature ==
    \/ Head(compressed_data).kind # "ok"
    \/ Head(compressed_data).items = <<>>
    \/ ~Head(Head(compressed_data).items).magic_ok

Finished == cov_pc \in {"done", "delivered"}

\* C11: with a bad signature no alignment record is ever read, the analysis
\* ends with the error "Not a valid BAM file" and no windows or CNV regions,
\* and the caller gets a thrown error carrying no result.
C11_BadSignatureFails ==
    BadSignature =>
        /\ read_count = 0
        /\ coverage = <<>>
        /\ cov_pc # "stream"
        /\ Finished => outcome = [error |-> "Not a valid BAM file"]
        /\ cov_pc = "delivered" =>
              /\ delivered.thrown
              /\ delivered.message = <<"BAM analysis failed: ", "Not a valid BAM file">>
              /\ delivered.result = Running

\* C11 witness: a stream with the wrong magic, followed by a block of
\* alignment records, has been rejected
C11_Witness ==
    /\ cov_pc = "delivered"
    /\ Head(compressed_data).kind = "ok"
    /\ BadSignature
    /\ Len(compressed_data) > 1
    /\ compressed_data[2].kind = "ok"
    /\ compressed_data[2].items # <<>>
    /\ delivered.thrown

\* every counter of every coverage array is zero
NoCoverage == \A k \in 1..Len(coverage) : \A i \in 1..Len(coverage[k].cov) : coverage[k].cov[i] = 0

\* C13: a readable input without a window of non-zero coverage ends with the
\* error "No coverage data found" and nothing else; the caller receives that
\* message exactly in this case, so never for a bad signature.
C13_EmptyResult ==
    /\ (Finished /\ ~BadSignature /\ NoCoverage) =>
           outcome = [error |-> "No coverage data found"]
    /\ cov_pc = "delivered" =>
           ((delivered.thrown
               /\ delivered.message = <<"BAM analysis failed: ", "No coverage data found">>
               /\ delivered.result = Running)
            <=> (~BadSignature /\ NoCoverage))

\* C13 witness: records were read, none was retained
C13_Witness ==
    /\ cov_pc = "delivered"
    /\ ~BadSignature
    /\ chroms = <<>>
    /\ read_count > 0
    /\ NoCoverage
    /\ delivered.thrown

\* C13 witness for the other cause: the chromosome filter matches no reference
C13_WitnessFilter ==
    /\ cov_pc = "delivered"
    /\ ~BadSignature
    /\ chroms = <<"chrX">>
    /\ coverage = <<>>
    /\ delivered.message = <<"BAM analysis failed: ", "No coverage data found">>

\* the record the next iteration of the loop reads
NextRecord == AlignmentsOnly(Readable(compressed_data))[read_count + 1]

LengthOf(name) ==
    LET k == CHOOSE k \in 1..Len(references) : references[k].name = name
    IN  references[k].length

\* C16: the coverage array of a retained chromosome of length L has
\* ceil(L / windowSize) windows.
C16_WindowCountIsCeil ==
    \A k \in 1..Len(coverage) :
        Len(coverage[k].cov) = (LengthOf(coverage[k].chrom) + WindowSize - 1) \div WindowSize

(***************************************************************************)
(* Properties of the CNV analysis: configuration, uniform coverage.         *)
(***************************************************************************)
\* the ranges of the manual settings: amplification 1.0 to 5.0, deletion
\* 0.1 to 0.9, minimum windows 1 to 20
InRange(o) ==
    /\ 10 <= o.ampThreshold /\ o.ampThreshold <= 50
    /\ 1 <= o.delThreshold /\ o.delThreshold <= 9
    /\ 1 <= o.minWindows /\ o.minWindows <= 20

\* C12: the analysis of a call with a manual setting outside its range does
\* not run to a result; it neither detects with the setting as given nor
\* with a default in its place.
C12_OutOfRangeRejected ==
    (options.useManualThresholds /\ ~InRange(options)) =>
        /\ cnv_pc \in {"windows", "done", "merged"}
        /\ cnv_pc \in {"done", "merged"} => result \notin {"ok", "No coverage data found"}

\* every window with coverage has the same coverage
Uniform ==
    \A i, j \in 1..Len(windows) :
        (windows[i].coverage > 0 /\ windows[j].coverage > 0)
            => windows[i].coverage = windows[j].coverage

\* C14: uniform coverage yields no CNV region, in adaptive mode and in manual
\* mode with settings inside their ranges.
C14_UniformYieldsNothing ==
    (Detected /\ Uniform /\ (use_manual_thresholds => InRange(options))) => cnvs = <<>>

(***************************************************************************)
(* Properties of the variant caller: allele frequency, window size.         *)
(***************************************************************************)
\* C17: every Variant returned has alt_count <= depth and an allele
\* frequency alt_count / depth in (0, 1].
C17_AlleleFrequencyRange ==
    var_pc = "done" =>
        \A i \in 1..Len(variants) :
            /\ variants[i].depth > 0
            /\ variants[i].alt_count <= variants[i].depth
            /\ variants[i].allele_freq = <<variants[i].alt_count, variants[i].depth>>
            /\ variants[i].alt_count > 0

\* other window sizes: position 999999 first in its window, last in its
\* window, inside it
OtherWindowSizes == {999999, 500000, 3000000}

\* C19: the variants returned are those the same procedure returns with
\* another window size, each once.
C19_WindowSizeIndependent ==
    var_pc = "done" =>
        \A w \in OtherWindowSizes :
            variants = PileupFromWindow(reads, 0, "chr1", chrom_len, min_depth,
                                        min_base_quality, min_variant_reads,
                                        min_allele_freq, w)

\* C19 witness: reads that straddle the boundary of the first two windows
\* gave a variant on each side of it
C19_Witness ==
    /\ var_pc = "done"
    /\ \E i, j \in 1..Len(variants) : variants[i].pos = 1000000 /\ variants[j].pos = 1000001

(***************************************************************************)
(* Properties of call_variants_from_bam.                                    *)
(***************************************************************************)
\* reference index r is among the targets
IsTarget(r) ==
    /\ 0 <= r /\ r < Len(VarReferences)
    /\ chroms = <<>> \/ \E k \in 1..Len(chroms) : chroms[k] = VarReferences[r + 1].name

\* what is kept of a record
ReadInfo(s) == [i \in 1..Len(s) |-> [pos |-> s[i].pos, seq |-> s[i].seq, qual |-> s[i].qual]]

\* the records read so far that belong in the bucket of reference index r
Retained(r) ==
    SelectSeq(Consumed,
              LAMBDA a : /\ a.refID = r
                         /\ IsTarget(r)
                         /\ NotSkipped(a)
                         /\ a.mapq >= min_mapping_quality)

Collecting == bam_pc \in {"scan", "pileup"} \/ (bam_pc = "done" /\ bam_result.error = "")

\* C20: throughout phase 1 and after it, the bucket of a target reference
\* holds, in stream order, exactly the records read so far that name it, are
\* not unmapped, duplicate or secondary and have mapping quality >= the
\* minimum; there is no bucket for any other reference.
C20_PhaseOneFilter ==
    Collecting =>
        /\ \A r \in 0..(Len(VarReferences) - 1) :
              IF IsTarget(r)
              THEN /\ \E k \in 1..Len(chrom_reads) : chrom_reads[k].ref_id = r
                   /\ ReadInfo(BucketOf(chrom_reads, r)) = ReadInfo(Retained(r))
              ELSE \A k \in 1..Len(chrom_reads) : chrom_reads[k].ref_id # r
        /\ \A k \in 1..Len(chrom_reads) : IsTarget(chrom_reads[k].ref_id)

\* C20 witness: of two records read, the one with mapping quality exactly
\* the minimum is in the bucket of its reference, the one just below is not
C20_Witness ==
    /\ bam_pc = "pileup"
    /\ read_count = 2
    /\ \E i, j \in 1..2 : Consumed[i].mapq = min_mapping_quality
                          /\ Consumed[j].mapq = min_mapping_quality - 1
    /\ Len(BucketOf(chrom_reads, 0)) = 1

\* the order of (chromosome, position) keys, chromosome names compared as
\* strings
KeyLE(a, b) ==
    \/ a.chrom = "chr10" /\ b.chrom = "chr2"
    \/ a.chrom = b.chrom /\ a.pos <= b.pos

\* C18: the list returned is in ascending order of (chromosome, position),
\* holds no (chromosome, position, alternate) twice, and holds the variants
\* called for the chromosomes, no more and no fewer.
C18_SortedNoDuplicates ==
    (bam_pc = "done" /\ bam_result.error = "") =>
        LET vs == bam_result.variants
        IN  /\ \A i, j \in 1..Len(vs) : i < j => KeyLE(vs[i], vs[j])
            /\ \A i, j \in 1..Len(vs) :
                  (vs[i].chrom = vs[j].chrom /\ vs[i].pos = vs[j].pos /\ vs[i].alt = vs[j].alt)
                      => i = j
            /\ Len(vs) = Len(all_variants)
            /\ {vs[i] : i \in 1..Len(vs)} = {all_variants[i] : i \in 1..Len(all_variants)}

\* C18 witness: variants of both chromosomes, called in the order of the
\* header (chr2 first), returned with those of chr10 first
C18_Witness ==
    /\ bam_pc = "done"
    /\ bam_result.error = ""
    /\ Len(all_variants) >= 2
    /\ all_variants[1].chrom = "chr2"
    /\ bam_result.variants[1].chrom = "chr10"
    /\ bam_result.variants[Len(all_variants)].chrom = "chr2"

(***************************************************************************)
(* Claims about chromosome boundaries (checked under SpecCnv).              *)
(***************************************************************************)
\* C21: no emitted CNV region spans chromosomes: every constituent window of
\* a region lies on the region's chromosome and inside its start..end, also
\* when the last window of one chromosome and the first window of the next
\* are classified alike.
C21_RegionOnOneChromosome ==
    Detected =>
        \A r \in Regions : \A k \in 1..Len(r.windows) :
            /\ r.windows[k].chromosome = r.chromosome
            /\ r.start <= r.windows[k].start
            /\ r.windows[k].end <= r.end

\* a region ends on the last window of chr1, the next window (the first of
\* chr2) has the same classification and opens a region of its own
C21_Witness ==
    /\ Detected
    /\ \E i \in 1..(Len(windows) - 1) : \E r1, r2 \in Regions :
          /\ windows[i].chromosome = "chr1"
          /\ windows[i + 1].chromosome = "chr2"
          /\ ExpectType(windows[i]) = ExpectType(windows[i + 1])
          /\ r1.type = r2.type
          /\ r1.windows[Len(r1.windows)] = windows[i]
          /\ r2.windows[1] = windows[i + 1]

(***************************************************************************)
(* Claims about the worker pool (checked under SpecPool).                   *)
(***************************************************************************)
\* mergeResults has returned a merged result
Merged == pool_pc = "merged" /\ pool_merged.error = ""

\* every window the workers reported
WorkerWindows == Flatten([k \in 1..Len(worker_results) |-> worker_results[k].coverageData])

WindowKeys(ws) == {<<ws[i].chromosome, ws[i].start>> : i \in 1..Len(ws)}

\* the coverage the workers reported for one window, added up
KeyCoverage(ws, key) ==
    SumSeq([i \in 1..Len(ws) |->
              IF <<ws[i].chromosome, ws[i].start>> = key THEN ws[i].coverage ELSE 0])

WindowSet(ws) == {ws[i] : i \in 1..Len(ws)}

\* the worker results in another order
Reordered(p) == [k \in 1..Len(worker_results) |-> worker_results[p[k]]]

\* C22: mergeResults aggregates commutatively: one merged window per distinct
\* (chromosome, start) with the summed coverage, total_reads the sum of the
\* workers' total_reads, and the same window set, median, coverage class and
\* CNV regions for every ordering of the worker results.
C22_MergeIsCommutative ==
    Merged =>
        LET mw == pool_merged.coverageData
        IN  /\ Cardinality(WindowKeys(WorkerWindows)) = Len(mw)
            /\ \A key \in WindowKeys(WorkerWindows) :
                  \E i \in 1..Len(mw) :
                      /\ <<mw[i].chromosome, mw[i].start>> = key
                      /\ mw[i].coverage = KeyCoverage(WorkerWindows, key)
            /\ pool_merged.total_reads =
                  SumSeq([k \in 1..Len(worker_results) |-> worker_results[k].total_reads])
            /\ \A p \in Permutations(1..Len(worker_results)) :
                  LET other == mergeResults(Reordered(p))
                  IN  /\ other.error = ""
                      /\ WindowSet(other.coverageData) = WindowSet(mw)
                      /\ other.median2 = pool_merged.median2
                      /\ other.class = pool_merged.class
                      /\ other.cnvs = pool_merged.cnvs
                      /\ other.total_reads = pool_merged.total_reads

\* several workers with different counts for the same window, and a merged
\* result with a CNV region
C22_Witness ==
    /\ Merged
    /\ Len(worker_results) >= 2
    /\ \E j, k \in 1..Len(worker_results) : \E i \in 1..4 :
          /\ worker_results[j].coverageData[i].coverage > 0
          /\ worker_results[k].coverageData[i].coverage > 0
          /\ worker_results[j].coverageData[i].coverage
                # worker_results[k].coverageData[i].coverage
    /\ pool_merged.cnvs # <<>>

\* C23: the median mergeResults recomputes on the merged windows equals the
\* median the single-pass pipeline computes for the same non-zero coverages
\* (the mean of the two middle values when their count is even), so the
\* coverage class and the normalized values agree with a single run.
C23_MedianAsSinglePass ==
    Merged =>
        LET cs == Coverages(pool_merged.coverageData)
        IN  /\ pool_merged.median2 = Median2(cs)
            /\ pool_merged.class = CoverageClass(Median2(cs))
            /\ pool_merged.coverageData =
                  Normalize(pool_merged.coverageData, Median2(cs))

(***************************************************************************)
(* The two adaptive detectors compared (checked under SpecCnv).             *)
(***************************************************************************)
\* what the comparison looks at in a region
RegionKey(r) ==
    [chromosome |-> r.chromosome, start |-> r.start, end |-> r.end,
     type |-> r.type, num_windows |-> r.num_windows]

RegionKeys(rs) == {RegionKey(rs[k]) : k \in 1..Len(rs)}

\* C26: on a window list in chromosome-then-position order, and for every
\* coverage class, detectCNVsFromWindows emits the same set of regions
\* (chromosome, start, end, type, window count) as detect_cnvs_adaptive.
C26_JsDetectorAgrees ==
    (Detected /\ ~use_manual_thresholds) =>
        RegionKeys(detectCNVsFromWindows(windows, coverage_class, median_cov2))
            = RegionKeys(cnvs)

(***************************************************************************)
(* The implicit reference (checked under SpecVar).                          *)
(***************************************************************************)
\* the variants emitted at one (1-based) position
VariantsAt(pos) == {k \in 1..Len(variants) : variants[k].pos = pos}

\* C27: at every pileup position the implicit reference is one of A, C, G, T
\* and at most three variants are emitted, one per non-majority base, each
\* with alt_count <= ref_count; also when N is the most frequent symbol and
\* when two bases tie for the majority.
C27_ReferenceIsABase ==
    var_pc = "done" =>
        \A k \in 1..Len(variants) :
            /\ variants[k].ref \in {"A", "C", "G", "T"}
            /\ variants[k].alt \in {"A", "C", "G", "T"} \ {variants[k].ref}
            /\ variants[k].alt_count <= variants[k].ref_count
            /\ Cardinality(VariantsAt(variants[k].pos)) <= 3
            /\ \A j \in VariantsAt(variants[k].pos) :
                  j # k => variants[j].alt # variants[k].alt

(***************************************************************************)
(* Claims about read_bytes (checked under SpecRdr).                         *)
(***************************************************************************)
\* the decompressed blocks in order, up to the first block that cannot be
\* read, as pieces
RECURSIVE StreamOf(_, _)
StreamOf(data, k) ==
    IF k > Len(data) \/ data[k].kind # "ok" THEN <<>>
    ELSE Slice(data[k].items, 0, BytesOf(data[k].items)) \o StreamOf(data, k + 1)

\* the byte string a is a prefix of the byte string b
BytePrefix(a, b) ==
    /\ Len(a) <= Len(b)
    /\ \A i \in 1..Len(a) :
          /\ a[i].of = b[i].of
          /\ a[i].lo = b[i].lo
          /\ IF i < Len(a) THEN a[i].hi = b[i].hi ELSE a[i].hi <= b[i].hi

RECURSIVE ByteCount(_)
ByteCount(pieces) ==
    IF pieces = <<>> THEN 0
    ELSE (Head(pieces).hi - Head(pieces).lo) + ByteCount(Tail(pieces))

\* the bytes still unread in the buffer
Unread == Slice(uncompressed_buffer, buffer_offset, Buffered(Reader))

\* C25: for any sequence of read_bytes calls on one reader the concatenation
\* of the byte strings returned by the successful calls is a prefix of the
\* concatenation of the decompressed blocks, no byte is dropped or repeated
\* by the 1 MB front trim (what is returned plus what is still buffered is a
\* prefix too, and its length is what was asked for), and a call that returns
\* None leaves the read position where it was.
C25_ReturnedIsPrefix ==
    LET stream == JoinBytes(<<>>, StreamOf(compressed_data, 1))
    IN  /\ BytePrefix(returned, stream)
        /\ BytePrefix(JoinBytes(returned, Unread), stream)
        /\ ByteCount(JoinBytes(returned, Unread)) = ByteCount(returned) + ByteCount(Unread)
        /\ ~last_read.ok => buffer_offset = last_read.offset_before
        /\ (last_read.ok /\ buffer_offset > 0) =>
              buffer_offset = last_read.offset_before + last_read.n

\* the trim has happened, a later call has read bytes behind it, and the
\* last call asked for more than the stream holds
C25_Witness ==
    /\ buffer_offset > 0
    /\ ByteCount(returned) - buffer_offset > 1048576
    /\ ~last_read.ok
    /\ calls >= 3

(***************************************************************************)
(* Termination of the streaming loops (checked under SpecStream).           *)
(***************************************************************************)
\* inside "while True" of calculate_coverage or of
\* collect_reads_for_all_chromosomes
InLoop == cov_pc = "stream" \/ bam_pc = "scan"

RECURSIVE BlockBytes(_, _)
BlockBytes(data, k) == IF k = 0 THEN 0 ELSE BytesOf(data[k].items) + BlockBytes(data, k - 1)

\* bytes of the decompressed stream the reader rd has handed out
PositionOf(rd) == BlockBytes(compressed_data, rd.compressed_pos - 1) - Buffered(rd)

StreamPosition == PositionOf(Reader)

\* bytes of the decompressed stream not handed out yet
StreamLeft == ByteCount(StreamOf(compressed_data, 1)) - StreamPosition

\* the bytes of the BAM header, the first item of the stream
HeaderBytes == compressed_data[1].items[1].size

\* C28: the record-streaming loops terminate on every finite input: inside
\* the loop the next read_alignment either returns None or consumes at least
\* 36 bytes of the decompressed stream, every record returned so far has
\* consumed 36 bytes or more (so the records returned are bounded by the
\* stream's length), a decoded block advances the compressed position, and
\* once the stream is exhausted read_alignment returns None.
C28_StreamingTerminates ==
    InLoop =>
        LET r == read_alignment(Reader, compressed_data)
            b == read_bgzf_block(Reader, compressed_data)
        IN  /\ r.aln # None => PositionOf(r.rd) >= StreamPosition + 36
            /\ StreamLeft = 0 => r.aln = None
            /\ b.none \/ b.rd.compressed_pos > compressed_pos
            /\ StreamPosition >= HeaderBytes + 36 * read_count
            /\ StreamPosition <= ByteCount(StreamOf(compressed_data, 1))

\* calculate_coverage has read two records or more to the end of the file and
\* left its loop
C28_Witness ==
    /\ cov_pc = "done"
    /\ read_count >= 2
    /\ compressed_pos > Len(compressed_data)
    /\ StreamLeft = 0
    /\ outcome.error = ""


(***************************************************************************)
(* Claims about the Pyodide worker (checked under SpecWorker and            *)
(* SpecWorkerLive).                                                         *)
(***************************************************************************)

\* What request id delivers when no other request is in flight: the result
\* computed from its own bytes and its own chromosome list, or an error for
\* its own bytes or for a failed initialization.
AloneReplies(id) ==
    LET h == handlers[id]
        own == Reply(IF h.type = "analyze-bam" THEN "analyze-bam-response"
                     ELSE "call-variants-response",
                     "", id, IF h.chroms THEN id ELSE 0)
    IN  IF initializationPromise = "rejected" THEN {ErrorReply("initialization")}
        ELSE IF h.good THEN {own}
        ELSE {ErrorReply("Not a valid BAM file")}

\* C24: the reply to an analyze-bam or call-variants request is the one the
\* request gets when it is alone in the worker: it is computed from the
\* request's own bytes and chromosome list, whatever other requests are in
\* flight.
C24_RequestsDoNotInterfere ==
    \A id \in 1..Len(handlers) :
        (UsesBam(handlers[id].type) /\ handlers[id].pc = "done")
            => \A i \in 1..Len(replies[id]) : replies[id][i] \in AloneReplies(id)

\* The replies of request id are those the worker may post for its type.
RepliesOf(id) ==
    LET h == handlers[id]
        rs == replies[id]
    IN  /\ Len(rs) <= 1
        /\ (Len(rs) = 1) <=> (h.pc = "done")
        /\ \A i \in 1..Len(rs) :
              /\ rs[i].type \in
                    {"error", IF h.type = "unknown" THEN "error"
                              ELSE IF h.type = "init" THEN "init-response"
                              ELSE IF h.type = "check-ready" THEN "check-ready-response"
                              ELSE IF h.type = "analyze-bam" THEN "analyze-bam-response"
                              ELSE IF h.type = "call-variants" THEN "call-variants-response"
                              ELSE IF h.type = "run-python" THEN "run-python-response"
                              ELSE "install-package-response"}
              /\ (rs[i].type = "error") <=> (rs[i].error # "")

\* C29: every message gets exactly one reply with its id, '<type>-response'
\* or 'error' ('error' for an unknown type): never two at any time, and one in
\* the end.
C29_ExactlyOneReply ==
    /\ [](\A id \in 1..Len(handlers) : RepliesOf(id))
    /\ \A id \in 1..MaxRequests :
          [](Len(handlers) >= id => <>(Len(replies) >= id /\ Len(replies[id]) = 1))

\* two requests have been answered, one with its response and one with an error
C29_Witness ==
    /\ Len(handlers) = 2
    /\ \A id \in 1..2 : handlers[id].pc = "done" /\ Len(replies[id]) = 1
    /\ \E id \in 1..2 : replies[id][1].type = "error"
    /\ \E id \in 1..2 : replies[id][1].type # "error"

\* C30: the runtime is loaded at most once, the analysis functions are
\* defined at most once, 'ready' is posted at most once and only with
\* isInitialized true, and a request's Python code runs only with
\* isInitialized true.
C30_InitializedOnce ==
    /\ runtime_loads <= 1
    /\ function_defs <= 1
    /\ ready_posts <= 1
    /\ ready_posts > 0 => isInitialized
    /\ \A id \in 1..Len(handlers) :
          (\/ handlers[id].pc \in {"await-python", "python-done", "await-install"}
           \/ handlers[id].py # NoPython
           \/ \E i \in 1..Len(replies[id]) :
                 replies[id][i].type \notin {"error", "check-ready-response"})
              => isInitialized

\* two requests arrived while the worker was not initialized, both wait on
\* the one initialization, and it has completed
C30_Witness ==
    /\ Len(handlers) = 2
    /\ \A id \in 1..2 : handlers[id].pc = "await-init"
    /\ isInitialized
    /\ ready_posts = 1
    /\ runtime_loads = 1
    /\ function_defs = 1

====
